---- MODULE Spec2Model ----
(***************************************************************************)
(* The Phil Jackson Triangle Pipeline of extensions/soundchain             *)
(* (phil-jackson.ts): classifyError, getStartStage, buildStagePrompt,      *)
(* runPipeline, quickDiagnose and deepDiagnose, and the warroom_diagnose   *)
(* tool that calls them; and the SoundChain channel plugin (channel.ts):   *)
(* sendText, startAccount with its seeding and its poll timer, and stop.   *)
(*                                                                         *)
(* A text is a sequence of characters, a character a one-character string  *)
(* (the em dash of the chemistry annotations is the atom "U+2014"), so     *)
(* that includes(), slice(), toLowerCase(), string concatenation and       *)
(* JSON.stringify are computed character by character as JavaScript        *)
(* computes them; the comment before a tuple of characters gives its text. *)
(* A JavaScript value is a record [t, v]: t its kind and v its content.    *)
(* Date.now() and the two duration fields are left out: no control flow    *)
(* reads them.  An async call is one step up to its first await and one    *)
(* step per settled await after that.                                      *)
(*                                                                         *)
(* Spec         one invocation of runPipeline, the service answering       *)
(*              anything                                                   *)
(* SpecPair     two invocations on one problem, the service answering a    *)
(*              request by its content                                     *)
(* SpecClassify classifyError applied to texts made of keyword fragments   *)
(* SpecPrompt   buildStagePrompt applied to lists of earlier results       *)
(* SpecTool     one execution of the warroom_diagnose tool                 *)
(* SpecConcurrent  two invocations on different problems that overlap      *)
(* SpecLive     one invocation whose requests the service all settles      *)
(* SpecChannel  one started account: messages arrive, the poller reports   *)
(* SpecGateway  startAccount, stop and sendText calls that interleave      *)
(***************************************************************************)
EXTENDS Integers, Sequences, FiniteSets

VARIABLES
    pc,           \* per run: "idle", "awaiting" (suspended at the await), "returned", "threw"
    entry,        \* per run: the exported function the caller used
    problem,      \* per run: the `problem` argument
    maxStages,    \* per run: the `maxStages` argument
    category,     \* per run: const category
    startIdx,     \* per run: const startIdx
    i,            \* per run: the loop counter
    context,      \* per run: let context
    stagesRun,    \* per run: const stagesRun (the array, mutated by push)
    calls,        \* per run: the (model, prompt) requests handed to ollamaGenerate, in order
    outcomes,     \* per run: how the service settled them, in order
    result,       \* per run: what the promise of the call settled with
    registry,     \* the PIPELINE_STAGES array
    classifyArg,  \* the fragments of the text of a direct classifyError call
    classifyRet,  \* what that call returned
    tool,         \* per run: the warroom_diagnose execution that started it
    promptArgs,   \* the arguments of a direct buildStagePrompt call
    promptRet,    \* what that call returned
    activeClients, \* the Map activeClients: per account id, the startAccount call whose
                   \* client it holds, or NoClient
    account,      \* per startAccount call: ctx.account (its accountId, its configured)
    gateway,      \* per startAccount call: "idle", "seeding" (suspended at the await of
                  \* the seed), "running" (it returned its stop function), "stopped",
                  \* "rejected" (it threw)
    seenIds,      \* per startAccount call: the Set seenIds, in insertion order
    interval,     \* per startAccount call: its interval timer is set and not cleared
    polls,        \* per startAccount call: the poll callbacks suspended at their await
    getChatsCalls, \* per startAccount call: the getChats requests its client has made
    newDMs,       \* per startAccount call: the message ids logged as "New DM", in order
    atStart,      \* per startAccount call: the ids that were the last message of a chat
                  \* when it was called
    chats,        \* the server: per chat, the id of its lastMessage (0: none)
    lastId,       \* the server: the id of the newest message
    sendTexts,    \* the sendText calls so far, each with how it ended
    sendMessages  \* the sendMessage requests made, in order

channelVars == <<activeClients, account, gateway, seenIds, interval, polls, getChatsCalls,
                 newDMs, atStart, chats, lastId, sendTexts, sendMessages>>

vars == <<pc, entry, problem, maxStages, category, startIdx, i, context, stagesRun,
          calls, outcomes, result, registry, classifyArg, classifyRet, tool, promptArgs,
          promptRet, channelVars>>

runVars == <<pc, entry, problem, maxStages, category, startIdx, i, context, stagesRun,
             calls, outcomes, result>>

pipelineVars == <<runVars, registry, classifyArg, classifyRet, tool, promptArgs, promptRet>>

-----------------------------------------------------------------------------
(* Bounds *)

\* the largest stage budget a caller passes (the registry holds 7 stages)
MaxBudget == 8

\* how many of a run's first model invocations may answer with any shape of value
RichDepth == 1

\* how many fragments a classified text is made of at most
MaxFrags == 3

-----------------------------------------------------------------------------
(* Texts *)

Min(a, b) == IF a < b THEN a ELSE b

UpperChars == (* "ABCDEFGHIJKLMNOPQRSTUVWXYZ" *) <<"A","B","C","D","E","F","G","H","I","J","K","L",
    "M","N","O","P","Q","R","S","T","U","V","W","X","Y","Z">>

LowerChars == (* "abcdefghijklmnopqrstuvwxyz" *) <<"a","b","c","d","e","f","g","h","i","j","k","l",
    "m","n","o","p","q","r","s","t","u","v","w","x","y","z">>

\* one character of String.prototype.toLowerCase
LowerChar(c) ==
    IF \E k \in 1..Len(UpperChars) : UpperChars[k] = c
    THEN LowerChars[CHOOSE k \in 1..Len(UpperChars) : UpperChars[k] = c]
    ELSE c

\* String.prototype.toLowerCase
toLowerCase(s) == [k \in 1..Len(s) |-> LowerChar(s[k])]

\* String.prototype.includes
includes(s, kw) ==
    \E k \in 1..(Len(s) - Len(kw) + 1) : SubSeq(s, k, k + Len(kw) - 1) = kw

\* String.prototype.slice(0, n) for n >= 0
slice0(s, n) == SubSeq(s, 1, Min(Len(s), n))

RECURSIVE Concat(_)
\* the concatenation of a sequence of texts, halving the sequence so that a
\* long one nests to the logarithm of its length only
Concat(ss) ==
    IF Len(ss) = 0 THEN <<>>
    ELSE IF Len(ss) = 1 THEN ss[1]
    ELSE Concat(SubSeq(ss, 1, Len(ss) \div 2)) \o Concat(SubSeq(ss, (Len(ss) \div 2) + 1, Len(ss)))

RECURSIVE join(_, _)
\* Array.prototype.join
join(ss, sep) ==
    IF ss = <<>> THEN <<>>
    ELSE IF Len(ss) = 1 THEN ss[1]
    ELSE ss[1] \o sep \o join(Tail(ss), sep)

Digits == (* "0123456789" *) <<"0","1","2","3","4","5","6","7","8","9">>

RECURSIVE ToDecimal(_)
\* the decimal form of a natural number, as a template literal renders it
ToDecimal(n) ==
    IF n < 10 THEN <<Digits[n + 1]>>
    ELSE ToDecimal(n \div 10) \o <<Digits[(n % 10) + 1]>>

-----------------------------------------------------------------------------
(* JavaScript values *)

Undefined == [t |-> "undefined", v |-> <<>>]

Null == [t |-> "null", v |-> <<>>]

Str(s) == [t |-> "string", v |-> s]

\* a plain object: its own properties in insertion order, each [k, v]
Obj(fields) == [t |-> "object", v |-> fields]

\* an Error instance with the given message
ErrorObj(msg) == [t |-> "error", v |-> msg]

Prop(key, val) == [k |-> key, v |-> val]

\* typeof x === "object" && x !== null
IsNonNullObject(x) == x.t \in {"object", "error"}

\* key in x, for a non-null object x (an Error has no own or inherited `response`)
HasProp(x, key) == x.t = "object" /\ \E n \in 1..Len(x.v) : x.v[n].k = key

\* x[key]; the last definition of a key wins
GetProp(x, key) ==
    x.v[CHOOSE n \in 1..Len(x.v) :
            /\ x.v[n].k = key
            /\ \A m \in (n + 1)..Len(x.v) : x.v[m].k # key].v

\* String(x), which is also what a template literal renders for x
String(x) ==
    CASE x.t = "string" -> x.v
      [] x.t = "undefined" -> (* "undefined" *) <<"u","n","d","e","f","i","n","e","d">>
      [] x.t = "null" -> (* "null" *) <<"n","u","l","l">>
      [] x.t = "object" -> (* "[object Object]" *) <<"[","o","b","j","e","c","t"," ","O","b","j",
          "e","c","t","]">>
      [] x.t = "error" -> IF x.v = <<>> THEN (* "Error" *) <<"E","r","r","o",
          "r">> ELSE (* "Error: " *) <<"E","r","r","o","r",":"," ">> \o x.v

\* one character inside a JSON string literal
JSONEscapeChar(c) ==
    CASE c = "\"" -> <<"\\", "\"">>
      [] c = "\\" -> <<"\\", "\\">>
      [] c = "\n" -> <<"\\", "n">>
      [] OTHER -> <<c>>

\* JSON's string literal for a text
JSONQuote(s) == <<"\"">> \o Concat([k \in 1..Len(s) |-> JSONEscapeChar(s[k])]) \o <<"\"">>

RECURSIVE JSONStringify(_)
\* JSON.stringify(x): a string value, or undefined when x has no serialized form.
\* A property whose value has no serialized form is left out of its object.
JSONStringify(x) ==
    CASE x.t = "undefined" -> Undefined
      [] x.t = "null" -> Str((* "null" *) <<"n","u","l","l">>)
      [] x.t = "string" -> Str(JSONQuote(x.v))
      [] x.t = "error" -> Str(<<"{","}">>)
      [] x.t = "object" ->
            LET kept == SelectSeq(x.v, LAMBDA p : JSONStringify(p.v).t = "string")
                members == [n \in 1..Len(kept) |->
                               JSONQuote(kept[n].k) \o <<":">> \o JSONStringify(kept[n].v).v]
            IN  Str(<<"{">> \o join(members, <<",">>) \o <<"}">>)

-----------------------------------------------------------------------------
(* The stage registry *)

PIPELINE_STAGES == <<
    [ name |-> (* "syntax_correction" *) <<"s","y","n","t","a","x","_","c","o","r","r","e","c","t",
        "i","o","n">>,
      model |-> (* "falcon:7b" *) <<"f","a","l","c","o","n",":","7","b">>,
      role |-> (* "Syntax Specialist" *) <<"S","y","n","t","a","x"," ","S","p","e","c","i","a","l",
          "i","s","t">>,
      trigger |-> (* "any_syntax_error" *) <<"a","n","y","_","s","y","n","t","a","x","_","e","r",
          "r","o","r">>,
      tasks |-> << (* "Detect and fix syntax errors (missing >, ;, unterminated regex)" *) <<"D",
          "e","t","e","c","t"," ","a","n","d"," ","f","i","x"," ","s","y","n","t","a","x"," ","e",
          "r","r","o","r","s"," ","(","m","i","s","s","i","n","g"," ",">",","," ",";",","," ","u",
          "n","t","e","r","m","i","n","a","t","e","d"," ","r","e","g","e","x",")">>,
                   (* "Ensure JSX/TSX validity" *) <<"E","n","s","u","r","e"," ","J","S","X","/",
                       "T","S","X"," ","v","a","l","i","d","i","t","y">> >>,
      output |-> (* "syntax_patch" *) <<"s","y","n","t","a","x","_","p","a","t","c","h">>,
      chemistry |-> (* "Steph Curry's shooting — precision from deep" *) <<"S","t","e","p","h"," ",
          "C","u","r","r","y","'","s"," ","s","h","o","o","t","i","n","g"," ","U+2014"," ","p","r",
          "e","c","i","s","i","o","n"," ","f","r","o","m"," ","d","e","e","p">> ],
    [ name |-> (* "logic_validation" *) <<"l","o","g","i","c","_","v","a","l","i","d","a","t","i",
        "o","n">>,
      model |-> (* "jmorgan/grok:latest" *) <<"j","m","o","r","g","a","n","/","g","r","o","k",":",
          "l","a","t","e","s","t">>,
      role |-> (* "Deep Analyst" *) <<"D","e","e","p"," ","A","n","a","l","y","s","t">>,
      trigger |-> (* "any_type_error" *) <<"a","n","y","_","t","y","p","e","_","e","r","r","o",
          "r">>,
      tasks |-> << (* "Detect logic conflicts across tsconfig, next.config.js, dockerfiles" *) 
          <<"D","e","t","e","c","t"," ","l","o","g","i","c"," ","c","o","n","f","l","i","c","t","s",
          " ","a","c","r","o","s","s"," ","t","s","c","o","n","f","i","g",","," ","n","e","x","t",
          ".","c","o","n","f","i","g",".","j","s",","," ","d","o","c","k","e","r","f","i","l","e",
          "s">>,
                   (* "Explain error causes in human-friendly terms" *) <<"E","x","p","l","a","i",
                       "n"," ","e","r","r","o","r"," ","c","a","u","s","e","s"," ","i","n"," ","h",
                       "u","m","a","n","-","f","r","i","e","n","d","l","y"," ","t","e","r","m",
                       "s">>,
                   (* "Validate and update type definitions" *) <<"V","a","l","i","d","a","t","e",
                       " ","a","n","d"," ","u","p","d","a","t","e"," ","t","y","p","e"," ","d","e",
                       "f","i","n","i","t","i","o","n","s">> >>,
      output |-> (* "validated_fix" *) <<"v","a","l","i","d","a","t","e","d","_","f","i","x">>,
      chemistry |-> (* "LeBron — sees the whole court, validates plays" *) <<"L","e","B","r","o",
          "n"," ","U+2014"," ","s","e","e","s"," ","t","h","e"," ","w","h","o","l","e"," ","c","o",
          "u","r","t",","," ","v","a","l","i","d","a","t","e","s"," ","p","l","a","y","s">> ],
    [ name |-> (* "fast_reaction" *) <<"f","a","s","t","_","r","e","a","c","t","i","o","n">>,
      model |-> (* "mistral:latest" *) <<"m","i","s","t","r","a","l",":","l","a","t","e","s","t">>,
      role |-> (* "First Responder" *) <<"F","i","r","s","t"," ","R","e","s","p","o","n","d","e",
          "r">>,
      trigger |-> (* "any_build_error" *) <<"a","n","y","_","b","u","i","l","d","_","e","r","r","o",
          "r">>,
      tasks |-> << (* "Scan logs instantly" *) <<"S","c","a","n"," ","l","o","g","s"," ","i","n",
          "s","t","a","n","t","l","y">>,
                   (* "Apply quick fixes like missing imports and typos" *) <<"A","p","p","l","y",
                       " ","q","u","i","c","k"," ","f","i","x","e","s"," ","l","i","k","e"," ","m",
                       "i","s","s","i","n","g"," ","i","m","p","o","r","t","s"," ","a","n","d"," ",
                       "t","y","p","o","s">>,
                   (* "Suggest yarn install if lockfile integrity fails" *) <<"S","u","g","g","e",
                       "s","t"," ","y","a","r","n"," ","i","n","s","t","a","l","l"," ","i","f"," ",
                       "l","o","c","k","f","i","l","e"," ","i","n","t","e","g","r","i","t","y"," ",
                       "f","a","i","l","s">> >>,
      output |-> (* "quick_fix_patch" *) <<"q","u","i","c","k","_","f","i","x","_","p","a","t","c",
          "h">>,
      chemistry |-> (* "Curry — fast handles, instant patch" *) <<"C","u","r","r","y"," ","U+2014",
          " ","f","a","s","t"," ","h","a","n","d","l","e","s",","," ","i","n","s","t","a","n","t",
          " ","p","a","t","c","h">> ],
    [ name |-> (* "dependency_management" *) <<"d","e","p","e","n","d","e","n","c","y","_","m","a",
        "n","a","g","e","m","e","n","t">>,
      model |-> (* "gemma:7b" *) <<"g","e","m","m","a",":","7","b">>,
      role |-> (* "Dependency Coordinator" *) <<"D","e","p","e","n","d","e","n","c","y"," ","C","o",
          "o","r","d","i","n","a","t","o","r">>,
      trigger |-> (* "after_quick_fix_patch" *) <<"a","f","t","e","r","_","q","u","i","c","k","_",
          "f","i","x","_","p","a","t","c","h">>,
      tasks |-> << (* "Validate dependency versions in package.json and lock files" *) <<"V","a",
          "l","i","d","a","t","e"," ","d","e","p","e","n","d","e","n","c","y"," ","v","e","r","s",
          "i","o","n","s"," ","i","n"," ","p","a","c","k","a","g","e",".","j","s","o","n"," ","a",
          "n","d"," ","l","o","c","k"," ","f","i","l","e","s">>,
                   (* "Suggest yarn/pnpm add/remove for missing or conflicting deps" *) <<"S","u",
                       "g","g","e","s","t"," ","y","a","r","n","/","p","n","p","m"," ","a","d","d",
                       "/","r","e","m","o","v","e"," ","f","o","r"," ","m","i","s","s","i","n","g",
                       " ","o","r"," ","c","o","n","f","l","i","c","t","i","n","g"," ","d","e","p",
                       "s">> >>,
      output |-> (* "dependency_patch" *) <<"d","e","p","e","n","d","e","n","c","y","_","p","a","t",
          "c","h">>,
      chemistry |-> (* "Draymond — organizes the team, sets the screen" *) <<"D","r","a","y","m",
          "o","n","d"," ","U+2014"," ","o","r","g","a","n","i","z","e","s"," ","t","h","e"," ","t",
          "e","a","m",","," ","s","e","t","s"," ","t","h","e"," ","s","c","r","e","e","n">> ],
    [ name |-> (* "strategic_reasoning" *) <<"s","t","r","a","t","e","g","i","c","_","r","e","a",
        "s","o","n","i","n","g">>,
      model |-> (* "mixtral:8x22b" *) <<"m","i","x","t","r","a","l",":","8","x","2","2","b">>,
      role |-> (* "Architect" *) <<"A","r","c","h","i","t","e","c","t">>,
      trigger |-> (* "after_validated_fix" *) <<"a","f","t","e","r","_","v","a","l","i","d","a","t",
          "e","d","_","f","i","x">>,
      tasks |-> << (* "Analyze project-wide implications of fixes" *) <<"A","n","a","l","y","z","e",
          " ","p","r","o","j","e","c","t","-","w","i","d","e"," ","i","m","p","l","i","c","a","t",
          "i","o","n","s"," ","o","f"," ","f","i","x","e","s">>,
                   (* "Suggest architectural or config-level improvements" *) <<"S","u","g","g","e",
                       "s","t"," ","a","r","c","h","i","t","e","c","t","u","r","a","l"," ","o","r",
                       " ","c","o","n","f","i","g","-","l","e","v","e","l"," ","i","m","p","r","o",
                       "v","e","m","e","n","t","s">>,
                   (* "Future-proof corrections for CI/CD and workspace" *) <<"F","u","t","u","r",
                       "e","-","p","r","o","o","f"," ","c","o","r","r","e","c","t","i","o","n","s",
                       " ","f","o","r"," ","C","I","/","C","D"," ","a","n","d"," ","w","o","r","k",
                       "s","p","a","c","e">> >>,
      output |-> (* "strategic_fix_plan" *) <<"s","t","r","a","t","e","g","i","c","_","f","i","x",
          "_","p","l","a","n">>,
      chemistry |-> (* "Durant — builds with long-range vision" *) <<"D","u","r","a","n","t"," ",
          "U+2014"," ","b","u","i","l","d","s"," ","w","i","t","h"," ","l","o","n","g","-","r","a",
          "n","g","e"," ","v","i","s","i","o","n">> ],
    [ name |-> (* "final_review" *) <<"f","i","n","a","l","_","r","e","v","i","e","w">>,
      model |-> (* "llama3.1:latest" *) <<"l","l","a","m","a","3",".","1",":","l","a","t","e","s",
          "t">>,
      role |-> (* "Team Captain" *) <<"T","e","a","m"," ","C","a","p","t","a","i","n">>,
      trigger |-> (* "after_strategic_fix_plan" *) <<"a","f","t","e","r","_","s","t","r","a","t",
          "e","g","i","c","_","f","i","x","_","p","l","a","n">>,
      tasks |-> << (* "Review all fixes for consistency" *) <<"R","e","v","i","e","w"," ","a","l",
          "l"," ","f","i","x","e","s"," ","f","o","r"," ","c","o","n","s","i","s","t","e","n","c",
          "y">>,
                   (* "Ensure build success" *) <<"E","n","s","u","r","e"," ","b","u","i","l","d",
                       " ","s","u","c","c","e","s","s">>,
                   (* "Make the final call" *) <<"M","a","k","e"," ","t","h","e"," ","f","i","n",
                       "a","l"," ","c","a","l","l">> >>,
      output |-> (* "final_patch" *) <<"f","i","n","a","l","_","p","a","t","c","h">>,
      chemistry |-> (* "Jordan — closes with dominance" *) <<"J","o","r","d","a","n"," ","U+2014",
          " ","c","l","o","s","e","s"," ","w","i","t","h"," ","d","o","m","i","n","a","n","c",
          "e">> ],
    [ name |-> (* "fallback" *) <<"f","a","l","l","b","a","c","k">>,
      model |-> (* "qwen:7b" *) <<"q","w","e","n",":","7","b">>,
      role |-> (* "Backup" *) <<"B","a","c","k","u","p">>,
      trigger |-> (* "after_final_review_fail" *) <<"a","f","t","e","r","_","f","i","n","a","l","_",
          "r","e","v","i","e","w","_","f","a","i","l">>,
      tasks |-> << (* "Provide alternative fixes if primary pipeline fails" *) <<"P","r","o","v",
          "i","d","e"," ","a","l","t","e","r","n","a","t","i","v","e"," ","f","i","x","e","s"," ",
          "i","f"," ","p","r","i","m","a","r","y"," ","p","i","p","e","l","i","n","e"," ","f","a",
          "i","l","s">>,
                   (* "Fresh perspective on the problem" *) <<"F","r","e","s","h"," ","p","e","r",
                       "s","p","e","c","t","i","v","e"," ","o","n"," ","t","h","e"," ","p","r","o",
                       "b","l","e","m">> >>,
      output |-> (* "fallback_fix" *) <<"f","a","l","l","b","a","c","k","_","f","i","x">>,
      chemistry |-> (* "Iguodala — steps up when it matters most" *) <<"I","g","u","o","d","a","l",
          "a"," ","U+2014"," ","s","t","e","p","s"," ","u","p"," ","w","h","e","n"," ","i","t"," ",
          "m","a","t","t","e","r","s"," ","m","o","s","t">> ] >>

-----------------------------------------------------------------------------
(* Decision flow *)

ErrorCategory == {"syntax", "type", "build", "dependency", "complex", "unknown"}

SyntaxKeywords ==
    << (* "unexpected token" *) <<"u","n","e","x","p","e","c","t","e","d"," ","t","o","k","e","n">>,
        (* "unterminated" *) <<"u","n","t","e","r","m","i","n","a","t","e","d">>,
        (* "missing >" *) <<"m","i","s","s","i","n","g"," ",">">>, (* "jsx" *) <<"j","s","x">>,
        (* "parsing error" *) <<"p","a","r","s","i","n","g"," ","e","r","r","o","r">> >>

TypeKeywords ==
    << (* "type error" *) <<"t","y","p","e"," ","e","r","r","o","r">>,
        (* "does not exist on type" *) <<"d","o","e","s"," ","n","o","t"," ","e","x","i","s","t",
        " ","o","n"," ","t","y","p","e">>, (* "is not assignable" *) <<"i","s"," ","n","o","t"," ",
        "a","s","s","i","g","n","a","b","l","e">>, (* "ts(" *) <<"t","s","(">>,
       (* "cannot find name" *) <<"c","a","n","n","o","t"," ","f","i","n","d"," ","n","a","m",
           "e">> >>

DependencyKeywords ==
    << (* "module not found" *) <<"m","o","d","u","l","e"," ","n","o","t"," ","f","o","u","n","d">>,
        (* "cannot find module" *) <<"c","a","n","n","o","t"," ","f","i","n","d"," ","m","o","d",
        "u","l","e">>, (* "yarn add" *) <<"y","a","r","n"," ","a","d","d">>, (* "pnpm add" *) <<"p",
        "n","p","m"," ","a","d","d">>,
       (* "peer dep" *) <<"p","e","e","r"," ","d","e","p">>, (* "version mismatch" *) <<"v","e","r",
           "s","i","o","n"," ","m","i","s","m","a","t","c","h">> >>

BuildKeywords ==
    << (* "build" *) <<"b","u","i","l","d">>, (* "compile" *) <<"c","o","m","p","i","l","e">>,
        (* "webpack" *) <<"w","e","b","p","a","c","k">>, (* "next build" *) <<"n","e","x","t"," ",
        "b","u","i","l","d">>, (* "tsc" *) <<"t","s","c">> >>

ComplexKeywords ==
    << (* "architecture" *) <<"a","r","c","h","i","t","e","c","t","u","r","e">>,
        (* "refactor" *) <<"r","e","f","a","c","t","o","r">>, (* "circular" *) <<"c","i","r","c",
        "u","l","a","r">>, (* "design" *) <<"d","e","s","i","g","n">> >>

\* one `if (lower.includes(..) || ..)` condition
includesAny(lower, kws) == \E n \in 1..Len(kws) : includes(lower, kws[n])

\* classifyError with the build keywords tried before the dependency keywords
classifyErrorBuildFirst(error) ==
    LET lower == toLowerCase(error)
    IN  IF includesAny(lower, SyntaxKeywords) THEN "syntax"
        ELSE IF includesAny(lower, TypeKeywords) THEN "type"
        ELSE IF includesAny(lower, BuildKeywords) THEN "build"
        ELSE IF includesAny(lower, DependencyKeywords) THEN "dependency"
        ELSE IF includesAny(lower, ComplexKeywords) THEN "complex"
        ELSE "unknown"

classifyError(error) ==
    LET lower == toLowerCase(error)
    IN  IF includesAny(lower, SyntaxKeywords) THEN "syntax"
        ELSE IF includesAny(lower, TypeKeywords) THEN "type"
        ELSE IF includesAny(lower, DependencyKeywords) THEN "dependency"
        ELSE IF includesAny(lower, BuildKeywords) THEN "build"
        ELSE IF includesAny(lower, ComplexKeywords) THEN "complex"
        ELSE "unknown"

\* getStartStage with the default case sent to the first stage
getStartStageDefaultFirst(c) ==
    CASE c = "syntax" -> 0
      [] c = "type" -> 1
      [] c = "build" -> 2
      [] c = "dependency" -> 3
      [] c = "complex" -> 4
      [] c = "unknown" -> 0

\* getStartStage with the build and dependency cases exchanged
getStartStageSwapped(c) ==
    CASE c = "syntax" -> 0
      [] c = "type" -> 1
      [] c = "build" -> 3
      [] c = "dependency" -> 2
      [] c = "complex" -> 4
      [] c = "unknown" -> 2

getStartStage(c) ==
    CASE c = "syntax" -> 0
      [] c = "type" -> 1
      [] c = "build" -> 2
      [] c = "dependency" -> 3
      [] c = "complex" -> 4
      [] c = "unknown" -> 2

-----------------------------------------------------------------------------
(* Prompt construction *)

\* text.slice(0, 500)
PrevTextLimit == 500

\* stage.tasks.map((t, i) => `  ${i + 1}. ${t}`).join("\n")
taskList(stage) ==
    join([n \in 1..Len(stage.tasks) |-> <<" "," ">> \o ToDecimal(n) \o <<".",
        " ">> \o stage.tasks[n]],
         <<"\n">>)

\* the template literal that opens the prompt
promptHead(stage, ctx) ==
    (* "You are the " *) <<"Y","o","u"," ","a","r","e"," ","t","h","e",
        " ">> \o stage.role \o (* " in the Phil Jackson Triangle Pipeline.\nYour job: " *) <<" ",
        "i","n"," ","t","h","e"," ","P","h","i","l"," ","J","a","c","k","s","o","n"," ","T","r","i",
        "a","n","g","l","e"," ","P","i","p","e","l","i","n","e",".","\n","Y","o","u","r"," ","j",
        "o","b",":"," ">>
        \o stage.tasks[1] \o (* "\n\nPROBLEM:\n" *) <<"\n","\n","P","R","O","B","L","E","M",":",
            "\n">> \o ctx \o (* "\n\nYOUR TASKS:\n" *) <<"\n","\n","Y","O","U","R"," ","T","A","S",
            "K","S",":","\n">>
        \o taskList(stage) \o <<"\n","\n">>

\* const text = ... ? String(prev.response.response) : JSON.stringify(prev.response)
prevText(prev) ==
    IF IsNonNullObject(prev.response) /\ HasProp(prev.response, (* "response" *) <<"r","e","s","p",
        "o","n","s","e">>)
    THEN Str(String(GetProp(prev.response, (* "response" *) <<"r","e","s","p","o","n","s","e">>)))
    ELSE JSONStringify(prev.response)

\* prevLine with the text not cut
prevLineUncut(prev) ==
    <<"-"," ">> \o prev.role \o <<" ","(">> \o prev.model \o (* "): " *) <<")",":",
        " ">> \o prevText(prev).v \o <<"\n">>

\* `- ${prev.role} (${prev.model}): ${text.slice(0, 500)}\n`
prevLine(prev) ==
    <<"-"," ">> \o prev.role \o <<" ","(">> \o prev.model \o (* "): " *) <<")",":"," ">>
        \o slice0(prevText(prev).v, PrevTextLimit) \o <<"\n">>

promptTail ==
    (* "\nBe concise and actionable. Give specific file paths, line numbers, and code fixes where possible. No fluff." *) 
        <<"\n","B","e"," ","c","o","n","c","i","s","e"," ","a","n","d"," ","a","c","t","i","o","n",
        "a","b","l","e","."," ","G","i","v","e"," ","s","p","e","c","i","f","i","c"," ","f","i","l",
        "e"," ","p","a","t","h","s",","," ","l","i","n","e"," ","n","u","m","b","e","r","s",","," ",
        "a","n","d"," ","c","o","d","e"," ","f","i","x","e","s"," ","w","h","e","r","e"," ","p","o",
        "s","s","i","b","l","e","."," ","N","o"," ","f","l","u","f","f",".">>

\* buildStagePrompt: the prompt, or threw when text.slice is called on a text
\* that is not a string (a TypeError)
buildStagePrompt(stage, ctx, previousResults) ==
    IF \E n \in 1..Len(previousResults) : prevText(previousResults[n]).t # "string"
    THEN [threw |-> TRUE, v |-> <<>>]
    ELSE [threw |-> FALSE,
          v |-> promptHead(stage, ctx)
                \o (IF Len(previousResults) > 0
                    THEN (* "PREVIOUS ANALYSIS FROM THE TEAM:\n" *) <<"P","R","E","V","I","O","U",
                        "S"," ","A","N","A","L","Y","S","I","S"," ","F","R","O","M"," ","T","H","E",
                        " ","T","E","A","M",":","\n">>
                         \o Concat([n \in 1..Len(previousResults) |->
                                       prevLine(previousResults[n])])
                         \o (* "\nBuild on their analysis. Don't repeat what they already found.\n" *) 
                             <<"\n","B","u","i","l","d"," ","o","n"," ","t","h","e","i","r"," ","a",
                             "n","a","l","y","s","i","s","."," ","D","o","n","'","t"," ","r","e",
                             "p","e","a","t"," ","w","h","a","t"," ","t","h","e","y"," ","a","l",
                             "r","e","a","d","y"," ","f","o","u","n","d",".","\n">>
                    ELSE <<>>)
                \o promptTail]

-----------------------------------------------------------------------------
(* Pipeline execution *)

\* the invocations of the pipeline that are followed
Runs == {"r1", "r2"}

\* response = { error: `Model ${stage.model} unavailable: ${err}` }
errorMarker(stage, err) ==
    Obj(<<Prop((* "error" *) <<"e","r","r","o","r">>,
               Str((* "Model " *) <<"M","o","d","e","l",
                   " ">> \o stage.model \o (* " unavailable: " *) <<" ","u","n","a","v","a","i","l",
                   "a","b","l","e",":"," ">> \o String(err)))>>)

\* const responseText = ... ? String(response.response) : JSON.stringify(response)
responseText(response) ==
    IF IsNonNullObject(response) /\ HasProp(response, (* "response" *) <<"r","e","s","p","o","n",
        "s","e">>)
    THEN Str(String(GetProp(response, (* "response" *) <<"r","e","s","p","o","n","s","e">>)))
    ELSE JSONStringify(response)

\* contextBlock with the response text left out
contextBlockHeaderOnly(stage, response) ==
    (* "\n\n--- " *) <<"\n","\n","-","-","-"," ">> \o stage.role \o <<" ",
        "(">> \o stage.model \o (* ") ---\n" *) <<")"," ","-","-","-","\n">>

\* `\n\n--- ${stage.role} (${stage.model}) ---\n${responseText}`
contextBlock(stage, response) ==
    (* "\n\n--- " *) <<"\n","\n","-","-","-"," ">> \o stage.role \o <<" ",
        "(">> \o stage.model \o (* ") ---\n" *) <<")"," ","-","-","-","\n">>
        \o String(responseText(response))

\* stageIdxOf stopping at the last stage of the registry instead of wrapping
stageIdxOfClamped(start, idx) == Min(start + idx, Len(registry) - 1) + 1

\* stageIdxOf with the start index forgotten
stageIdxOfNoStart(start, idx) == (idx % Len(registry)) + 1

\* const stageIdx = (startIdx + i) % PIPELINE_STAGES.length, as an index from 1
stageIdxOf(start, idx) == ((start + idx) % Len(registry)) + 1

\* loopCondition with the cap at two rotations of the registry
loopConditionTwoRotations(idx, budget) == idx < budget /\ idx < 2 * Len(registry)

\* loopCondition without the cap at the registry size
loopConditionNoCap(idx, budget) == idx < budget

\* loopCondition with the budget raised to the documented minimum of 1
loopConditionAtLeastOne(idx, budget) ==
    idx < (IF budget < 1 THEN 1 ELSE budget) /\ idx < Len(registry)

\* i < maxStages && i < PIPELINE_STAGES.length
loopCondition(idx, budget) == idx < budget /\ idx < Len(registry)

\* Loop starting the invocation of the stage after this one along with it
LoopAhead(r, p, cat, start, budget, idx, ctx, results) ==
    LET stage == registry[stageIdxOf(start, idx)]
        ahead == registry[stageIdxOf(start, idx + 1)]
        built == buildStagePrompt(stage, ctx, results)
        request == [model |-> stage.model, prompt |-> built.v]
    IN  /\ i' = [i EXCEPT ![r] = idx]
        /\ context' = [context EXCEPT ![r] = ctx]
        /\ stagesRun' = [stagesRun EXCEPT ![r] = results]
        /\ IF ~loopCondition(idx, budget)
           THEN /\ pc' = [pc EXCEPT ![r] = "returned"]
                /\ result' = [result EXCEPT ![r] =
                                 [kind |-> "value", problem |-> p, category |-> cat,
                                  stagesRun |-> results]]
                /\ calls' = calls
           ELSE IF built.threw
           THEN /\ pc' = [pc EXCEPT ![r] = "threw"]
                /\ result' = [result EXCEPT ![r] =
                                 [kind |-> "TypeError", problem |-> <<>>, category |-> "unknown",
                                  stagesRun |-> <<>>]]
                /\ calls' = calls
           ELSE /\ pc' = [pc EXCEPT ![r] = "awaiting"]
                /\ result' = result
                /\ calls' = [calls EXCEPT ![r] =
                                IF loopCondition(idx + 1, budget)
                                THEN @ \o <<request, [model |-> ahead.model, prompt |-> built.v]>>
                                ELSE Append(@, request)]

\* runPipeline from the loop condition to the next await, the return, or the
\* error that buildStagePrompt raises
Loop(r, p, cat, start, budget, idx, ctx, results) ==
    LET stage == registry[stageIdxOf(start, idx)]
        built == buildStagePrompt(stage, ctx, results)
    IN  /\ i' = [i EXCEPT ![r] = idx]
        /\ context' = [context EXCEPT ![r] = ctx]
        /\ stagesRun' = [stagesRun EXCEPT ![r] = results]
        /\ IF ~loopCondition(idx, budget)
           THEN /\ pc' = [pc EXCEPT ![r] = "returned"]
                /\ result' = [result EXCEPT ![r] =
                                 [kind |-> "value", problem |-> p, category |-> cat,
                                  stagesRun |-> results]]
                /\ calls' = calls
           ELSE IF built.threw
           THEN /\ pc' = [pc EXCEPT ![r] = "threw"]
                /\ result' = [result EXCEPT ![r] =
                                 [kind |-> "TypeError", problem |-> <<>>, category |-> "unknown",
                                  stagesRun |-> <<>>]]
                /\ calls' = calls
           ELSE /\ pc' = [pc EXCEPT ![r] = "awaiting"]
                /\ result' = result
                /\ calls' = [calls EXCEPT ![r] =
                                Append(@, [model |-> stage.model, prompt |-> built.v])]

\* runPipeline with a start stage that a cursor shared by all invocations rotates
runPipelineRotating(r, e, p, budget) ==
    LET start == (getStartStage(classifyError(p))
                     + Cardinality({q \in Runs : pc[q] # "idle"})) % Len(registry)
    IN  /\ pc[r] = "idle"
        /\ entry' = [entry EXCEPT ![r] = e]
        /\ problem' = [problem EXCEPT ![r] = p]
        /\ maxStages' = [maxStages EXCEPT ![r] = budget]
        /\ category' = [category EXCEPT ![r] = classifyError(p)]
        /\ startIdx' = [startIdx EXCEPT ![r] = start]
        /\ Loop(r, p, classifyError(p), start, budget, 0, p, <<>>)
        /\ UNCHANGED <<outcomes, registry, classifyArg, channelVars, classifyRet, promptArgs,
            promptRet>>

\* runPipeline(client, problem, maxStages) up to its first await; e is the
\* exported function it was entered through
runPipeline(r, e, p, budget) ==
    /\ pc[r] = "idle"
    /\ entry' = [entry EXCEPT ![r] = e]
    /\ problem' = [problem EXCEPT ![r] = p]
    /\ maxStages' = [maxStages EXCEPT ![r] = budget]
    /\ category' = [category EXCEPT ![r] = classifyError(p)]
    /\ startIdx' = [startIdx EXCEPT ![r] = getStartStage(classifyError(p))]
    /\ Loop(r, p, classifyError(p), getStartStage(classifyError(p)), budget, 0, p, <<>>)
    /\ UNCHANGED <<outcomes, registry, classifyArg, channelVars, classifyRet, promptArgs,
        promptRet>>

\* the budget quickDiagnose passes
QuickStages == 1

\* the budget deepDiagnose passes
DeepStages == 7

CallRunPipeline(r, p, budget) == runPipeline(r, "runPipeline", p, budget)

\* quickDiagnose passing a budget of two stages
CallQuickDiagnoseTwo(r, p) == runPipeline(r, "quickDiagnose", p, QuickStages + 1)

CallQuickDiagnose(r, p) == runPipeline(r, "quickDiagnose", p, QuickStages)

CallDeepDiagnose(r, p) == runPipeline(r, "deepDiagnose", p, DeepStages)

\* Record putting the new StageResult in front of the earlier ones
RecordPrepending(r, o, stage, response) ==
    LET res == [stage |-> stage.name, model |-> stage.model, role |-> stage.role,
                chemistry |-> stage.chemistry, response |-> response]
    IN  /\ pc[r] = "awaiting"
        /\ outcomes' = [outcomes EXCEPT ![r] = Append(@, o)]
        /\ Loop(r, problem[r], category[r], startIdx[r], maxStages[r], i[r] + 1,
                context[r] \o contextBlock(stage, response), <<res>> \o stagesRun[r])
        /\ UNCHANGED <<entry, problem, maxStages, category, startIdx, registry,
                       classifyArg, channelVars, classifyRet, tool, promptArgs, promptRet>>

\* Record taking the accumulated context for the problem and classifying it anew
RecordContextAsProblem(r, o, stage, response) ==
    LET res == [stage |-> stage.name, model |-> stage.model, role |-> stage.role,
                chemistry |-> stage.chemistry, response |-> response]
        ctx == context[r] \o contextBlock(stage, response)
    IN  /\ pc[r] = "awaiting"
        /\ outcomes' = [outcomes EXCEPT ![r] = Append(@, o)]
        /\ Loop(r, ctx, classifyError(ctx), startIdx[r], maxStages[r], i[r] + 1, ctx,
                Append(stagesRun[r], res))
        /\ UNCHANGED <<entry, problem, maxStages, category, startIdx, registry,
                       classifyArg, channelVars, classifyRet, tool, promptArgs, promptRet>>

\* Record with one context that all invocations append to
RecordSharedContext(r, o, stage, response) ==
    LET res == [stage |-> stage.name, model |-> stage.model, role |-> stage.role,
                chemistry |-> stage.chemistry, response |-> response]
        shared == context[CHOOSE q \in Runs : \A q2 \in Runs : Len(context[q]) >= Len(context[q2])]
    IN  /\ pc[r] = "awaiting"
        /\ outcomes' = [outcomes EXCEPT ![r] = Append(@, o)]
        /\ Loop(r, problem[r], category[r], startIdx[r], maxStages[r], i[r] + 1,
                shared \o contextBlock(stage, response), Append(stagesRun[r], res))
        /\ UNCHANGED <<entry, problem, maxStages, category, startIdx, registry,
                       classifyArg, channelVars, classifyRet, tool, promptArgs, promptRet>>

\* Record moving the stage it has run to the end of the registry
RecordRotatingRegistry(r, o, stage, response) ==
    LET res == [stage |-> stage.name, model |-> stage.model, role |-> stage.role,
                chemistry |-> stage.chemistry, response |-> response]
    IN  /\ pc[r] = "awaiting"
        /\ outcomes' = [outcomes EXCEPT ![r] = Append(@, o)]
        /\ registry' = SelectSeq(registry, LAMBDA s : s # stage) \o <<stage>>
        /\ Loop(r, problem[r], category[r], startIdx[r], maxStages[r], i[r] + 1,
                context[r] \o contextBlock(stage, response), Append(stagesRun[r], res))
        /\ UNCHANGED <<entry, problem, maxStages, category, startIdx,
                       classifyArg, channelVars, classifyRet, tool, promptArgs, promptRet>>

\* the rest of one loop iteration once `response` is assigned: the StageResult
\* is pushed, the context extended, and the loop goes on
Record(r, o, stage, response) ==
    LET res == [stage |-> stage.name, model |-> stage.model, role |-> stage.role,
                chemistry |-> stage.chemistry, response |-> response]
    IN  /\ pc[r] = "awaiting"
        /\ outcomes' = [outcomes EXCEPT ![r] = Append(@, o)]
        /\ Loop(r, problem[r], category[r], startIdx[r], maxStages[r], i[r] + 1,
                context[r] \o contextBlock(stage, response), Append(stagesRun[r], res))
        /\ UNCHANGED <<entry, problem, maxStages, category, startIdx, registry,
                       classifyArg, channelVars, classifyRet, tool, promptArgs, promptRet>>

\* the rejection leaves runPipeline instead of being caught
Raise(r, o) ==
    /\ pc[r] = "awaiting"
    /\ outcomes' = [outcomes EXCEPT ![r] = Append(@, o)]
    /\ pc' = [pc EXCEPT ![r] = "threw"]
    /\ result' = [result EXCEPT ![r] =
                     [kind |-> "rejection", problem |-> <<>>, category |-> "unknown",
                      stagesRun |-> <<>>]]
    /\ UNCHANGED <<entry, problem, maxStages, category, startIdx, i, context, stagesRun,
                   calls, registry, classifyArg, channelVars, classifyRet, tool, promptArgs,
                       promptRet>>

\* Settle without the try/catch around the await
SettleUncaught(r, o) ==
    IF o.ok
    THEN Record(r, o, registry[stageIdxOf(startIdx[r], i[r])], o.v)
    ELSE Raise(r, o)

\* Settle repeating the request of a stage that failed, once
SettleRetry(r, o) ==
    IF o.ok \/ Len(calls[r]) > i[r] + 1
    THEN Record(r, o, registry[stageIdxOf(startIdx[r], i[r])],
                IF o.ok THEN o.v ELSE errorMarker(registry[stageIdxOf(startIdx[r], i[r])], o.v))
    ELSE /\ pc[r] = "awaiting"
         /\ calls' = [calls EXCEPT ![r] = Append(@, @[Len(@)])]
         /\ UNCHANGED <<pc, entry, problem, maxStages, category, startIdx, i, context,
                        stagesRun, outcomes, result, registry, classifyArg, channelVars,
                            classifyRet,
                        tool, promptArgs, promptRet>>

\* ollamaGenerate has settled, with a value (o.ok) or with a rejection that the
\* catch clause turns into the error marker; the iteration is completed
Settle(r, o) ==
    LET stage == registry[stageIdxOf(startIdx[r], i[r])]
    IN  Record(r, o, stage, IF o.ok THEN o.v ELSE errorMarker(stage, o.v))

-----------------------------------------------------------------------------
(* The channel plugin: channel.ts, with the messaging client of messaging.ts *)

\* const DEFAULT_ACCOUNT_ID
DEFAULT_ACCOUNT_ID == (* "default" *) <<"d","e","f","a","u","l","t">>

\* the cap on the Set seenIds; 5_000 in the source, scaled down
MAX_SEEN_IDS == 2

\* the account ids that the gateway and the callers of sendText use
AccountIds == {DEFAULT_ACCOUNT_ID, (* "other" *) <<"o","t","h","e","r">>}

\* the calls of startAccount, told apart
Instances == {1, 2}

\* activeClients.get(aid) for a key the Map does not hold
NoClient == 0

\* the chats of the bot account on the server
Chats == {"a", "b", "c"}

\* the account of a startAccount call that has not been made
NoAccount == [accountId |-> DEFAULT_ACCOUNT_ID, configured |-> FALSE]

\* Set.prototype.has
has(set, x) == \E k \in 1..Len(set) : set[k] = x

\* Set.prototype.add: a value the Set holds keeps its place
add(set, x) == IF has(set, x) THEN set ELSE Append(set, x)

\* lines 215-220: past the cap, the entries of Array.from(seenIds) before
\* index length - MAX_SEEN_IDS are deleted
capSeenIds(set) ==
    IF Len(set) > MAX_SEEN_IDS
    THEN SubSeq(set, Len(set) - MAX_SEEN_IDS + 1, Len(set))
    ELSE set

\* lines 193-197: the seed adds the id of every lastMessage
RECURSIVE seed(_, _)
seed(set, list) ==
    IF list = <<>> THEN set
    ELSE seed(IF Head(list).lastMessage # 0 THEN add(set, Head(list).lastMessage) ELSE set,
              Tail(list))

\* lines 208-239: the loop of a poll callback over the chats of the response,
\* from the Set and the log as they are to what it leaves
RECURSIVE pollLoop(_, _, _)
pollLoop(set, dms, list) ==
    IF list = <<>> THEN [seenIds |-> set, newDMs |-> dms]
    ELSE IF Head(list).lastMessage = 0 \/ has(set, Head(list).lastMessage)
    THEN pollLoop(set, dms, Tail(list))
    ELSE pollLoop(capSeenIds(add(set, Head(list).lastMessage)),
                  Append(dms, Head(list).lastMessage), Tail(list))

\* startAccount registering its client before it looks at account.configured
startAccountRegisterFirst(n, aid, configured) ==
    /\ gateway[n] = "idle"
    /\ account' = [account EXCEPT ![n] = [accountId |-> aid, configured |-> configured]]
    /\ atStart' = [atStart EXCEPT ![n] = {chats[c] : c \in Chats} \ {0}]
    /\ activeClients' = [activeClients EXCEPT ![aid] = n]
    /\ IF ~configured
       THEN /\ gateway' = [gateway EXCEPT ![n] = "rejected"]
            /\ UNCHANGED <<seenIds, getChatsCalls>>
       ELSE /\ gateway' = [gateway EXCEPT ![n] = "seeding"]
            /\ seenIds' = [seenIds EXCEPT ![n] = <<>>]
            /\ getChatsCalls' = [getChatsCalls EXCEPT ![n] = @ + 1]
    /\ UNCHANGED <<interval, polls, newDMs, chats, lastId, sendTexts, sendMessages,
                   pipelineVars>>

\* startAccount(ctx) up to the await of the seed, or to its throw when the
\* account is not configured
startAccount(n, aid, configured) ==
    /\ gateway[n] = "idle"
    /\ account' = [account EXCEPT ![n] = [accountId |-> aid, configured |-> configured]]
    /\ atStart' = [atStart EXCEPT ![n] = {chats[c] : c \in Chats} \ {0}]
    /\ IF ~configured
       THEN /\ gateway' = [gateway EXCEPT ![n] = "rejected"]
            /\ UNCHANGED <<activeClients, seenIds, getChatsCalls>>
       ELSE /\ gateway' = [gateway EXCEPT ![n] = "seeding"]
            /\ activeClients' = [activeClients EXCEPT ![aid] = n]
            /\ seenIds' = [seenIds EXCEPT ![n] = <<>>]
            /\ getChatsCalls' = [getChatsCalls EXCEPT ![n] = @ + 1]
    /\ UNCHANGED <<interval, polls, newDMs, chats, lastId, sendTexts, sendMessages,
                   pipelineVars>>

\* the seed's getChats has settled: startAccount fills seenIds from a
\* response, or logs the failure; then it sets the interval and returns
seedSettles(n, o) ==
    /\ gateway[n] = "seeding"
    /\ seenIds' = [seenIds EXCEPT ![n] = IF o.ok THEN seed(@, o.v) ELSE @]
    /\ interval' = [interval EXCEPT ![n] = TRUE]
    /\ gateway' = [gateway EXCEPT ![n] = "running"]
    /\ UNCHANGED <<activeClients, account, polls, getChatsCalls, newDMs, atStart, chats,
                   lastId, sendTexts, sendMessages, pipelineVars>>

\* the interval fires: the callback calls getChats and is suspended
pollTick(n) ==
    /\ interval[n]
    /\ polls' = [polls EXCEPT ![n] = @ + 1]
    /\ getChatsCalls' = [getChatsCalls EXCEPT ![n] = @ + 1]
    /\ UNCHANGED <<activeClients, account, gateway, seenIds, interval, newDMs, atStart,
                   chats, lastId, sendTexts, sendMessages, pipelineVars>>

\* the getChats of a poll callback has settled: the callback runs its loop
\* over the response, or swallows the failure
pollSettles(n, o) ==
    /\ polls[n] > 0
    /\ polls' = [polls EXCEPT ![n] = @ - 1]
    /\ LET after == IF o.ok
                    THEN pollLoop(seenIds[n], newDMs[n], o.v)
                    ELSE [seenIds |-> seenIds[n], newDMs |-> newDMs[n]]
       IN  /\ seenIds' = [seenIds EXCEPT ![n] = after.seenIds]
           /\ newDMs' = [newDMs EXCEPT ![n] = after.newDMs]
    /\ UNCHANGED <<activeClients, account, gateway, interval, getChatsCalls, atStart,
                   chats, lastId, sendTexts, sendMessages, pipelineVars>>

\* the stop function that startAccount returned
stop(n) ==
    /\ gateway[n] = "running"
    /\ interval' = [interval EXCEPT ![n] = FALSE]
    /\ activeClients' = [activeClients EXCEPT ![account[n].accountId] = NoClient]
    /\ gateway' = [gateway EXCEPT ![n] = "stopped"]
    /\ UNCHANGED <<account, seenIds, polls, getChatsCalls, newDMs, atStart, chats, lastId,
                   sendTexts, sendMessages, pipelineVars>>

\* accountId ?? DEFAULT_ACCOUNT_ID, text ?? ""
orElse(x, default) == IF x.t \in {"undefined", "null"} THEN default ELSE x.v

\* sendText sending through the client of the default account
sendTextDefaultClient(to, text, accountId) ==
    LET client == activeClients[DEFAULT_ACCOUNT_ID]
        call == [accountId |-> accountId, to |-> to, text |-> text]
    IN  IF client = NoClient
        THEN /\ sendTexts' = Append(sendTexts, [call |-> call, state |-> "not running"])
             /\ UNCHANGED <<activeClients, account, gateway, seenIds, interval, polls,
                            getChatsCalls, newDMs, atStart, chats, lastId, sendMessages,
                            pipelineVars>>
        ELSE /\ sendTexts' = Append(sendTexts, [call |-> call, state |-> "awaiting"])
             /\ sendMessages' =
                    Append(sendMessages,
                           [client |-> client, toId |-> to, message |-> orElse(text, <<>>)])
             /\ UNCHANGED <<activeClients, account, gateway, seenIds, interval, polls,
                            getChatsCalls, newDMs, atStart, chats, lastId, pipelineVars>>

\* sendText({ to, text, accountId }) up to its throw or to the await of sendMessage
sendText(to, text, accountId) ==
    LET aid == orElse(accountId, DEFAULT_ACCOUNT_ID)
        client == activeClients[aid]
        call == [accountId |-> accountId, to |-> to, text |-> text]
    IN  IF client = NoClient
        THEN /\ sendTexts' = Append(sendTexts, [call |-> call, state |-> "not running"])
             /\ UNCHANGED <<activeClients, account, gateway, seenIds, interval, polls,
                            getChatsCalls, newDMs, atStart, chats, lastId, sendMessages,
                            pipelineVars>>
        ELSE /\ sendTexts' = Append(sendTexts, [call |-> call, state |-> "awaiting"])
             /\ sendMessages' =
                    Append(sendMessages,
                           [client |-> client, toId |-> to, message |-> orElse(text, <<>>)])
             /\ UNCHANGED <<activeClients, account, gateway, seenIds, interval, polls,
                            getChatsCalls, newDMs, atStart, chats, lastId, pipelineVars>>

\* the sendMessage of the k-th sendText call has settled: sendText returns
\* the delivery record, or the rejection passes on to its caller
sendSettles(k, ok) ==
    /\ k \in 1..Len(sendTexts)
    /\ sendTexts[k].state = "awaiting"
    /\ sendTexts' = [sendTexts EXCEPT ![k].state = IF ok THEN "returned" ELSE "rejected"]
    /\ UNCHANGED <<activeClients, account, gateway, seenIds, interval, polls, getChatsCalls,
                   newDMs, atStart, chats, lastId, sendMessages, pipelineVars>>

\* no account started, no chat on the server, nothing sent
InitChannel ==
    /\ activeClients = [a \in AccountIds |-> NoClient]
    /\ account = [n \in Instances |-> NoAccount]
    /\ gateway = [n \in Instances |-> "idle"]
    /\ seenIds = [n \in Instances |-> <<>>]
    /\ interval = [n \in Instances |-> FALSE]
    /\ polls = [n \in Instances |-> 0]
    /\ getChatsCalls = [n \in Instances |-> 0]
    /\ newDMs = [n \in Instances |-> <<>>]
    /\ atStart = [n \in Instances |-> {}]
    /\ chats = [c \in Chats |-> 0]
    /\ lastId = 0
    /\ sendTexts = <<>>
    /\ sendMessages = <<>>

-----------------------------------------------------------------------------
(* The callers and the model-invocation service *)

\* the problem texts the callers pass
Problems == <<
    (* "Unexpected token '>' in JSX" *) <<"U","n","e","x","p","e","c","t","e","d"," ","t","o","k",
        "e","n"," ","'",">","'"," ","i","n"," ","J","S","X">>,
    (* "Module not found: cannot find module 'foo'" *) <<"M","o","d","u","l","e"," ","n","o","t",
        " ","f","o","u","n","d",":"," ","c","a","n","n","o","t"," ","f","i","n","d"," ","m","o","d",
        "u","l","e"," ","'","f","o","o","'">>,
    (* "Type error: x is not assignable" *) <<"T","y","p","e"," ","e","r","r","o","r",":"," ","x",
        " ","i","s"," ","n","o","t"," ","a","s","s","i","g","n","a","b","l","e">>,
    (* "next build failed" *) <<"n","e","x","t"," ","b","u","i","l","d"," ","f","a","i","l","e",
        "d">>,
    (* "Circular import, refactor" *) <<"C","i","r","c","u","l","a","r"," ","i","m","p","o","r","t",
        ","," ","r","e","f","a","c","t","o","r">>,
    (* "It crashes on start" *) <<"I","t"," ","c","r","a","s","h","e","s"," ","o","n"," ","s","t",
        "a","r","t">>,
    <<>> >>

Budgets == {0 - 1} \cup (0..MaxBudget)

Resolved(val) == [ok |-> TRUE, v |-> val]

Rejected(err) == [ok |-> FALSE, v |-> err]

\* what the service answers: the usual object with a response text, or a failure
PlainOutcomes == <<
    Resolved(Obj(<<Prop((* "response" *) <<"r","e","s","p","o","n","s","e">>,
        Str((* "Add the missing >" *) <<"A","d","d"," ","t","h","e"," ","m","i","s","s","i","n","g",
        " ",">">>))>>)),
    Rejected(ErrorObj((* "fetch failed" *) <<"f","e","t","c","h"," ","f","a","i","l","e","d">>)) >>

\* values of other shapes that a client typed `unknown` may resolve with
OddOutcomes == <<
    Resolved(Undefined),
    Resolved(Null),
    Resolved(Str((* "say "hi"" *) <<"s","a","y"," ","\"","h","i","\"">>)),
    Resolved(Obj(<<Prop((* "done" *) <<"d","o","n","e">>, Str((* "yes" *) <<"y","e","s">>)),
        Prop((* "note" *) <<"n","o","t","e">>, Undefined)>>)) >>

\* what the service may answer to the request numbered n (from 0) of a run
OutcomesAt(n) == IF n < RichDepth THEN PlainOutcomes \o OddOutcomes ELSE PlainOutcomes

ServiceSettles(r) ==
    \E n \in 1..Len(OutcomesAt(Len(outcomes[r]))) :
        Settle(r, OutcomesAt(Len(outcomes[r]))[n])

NoResult == [kind |-> "none", problem |-> <<>>, category |-> "unknown", stagesRun |-> <<>>]

\* no warroom_diagnose execution
NoTool ==
    [pc |-> "idle", params |-> [problem |-> Undefined, depth |-> Undefined],
     ret |-> [kind |-> "none", details |-> NoResult]]

InitRuns ==
    /\ pc = [r \in Runs |-> "idle"]
    /\ entry = [r \in Runs |-> "none"]
    /\ problem = [r \in Runs |-> <<>>]
    /\ maxStages = [r \in Runs |-> 0]
    /\ category = [r \in Runs |-> "unknown"]
    /\ startIdx = [r \in Runs |-> 0]
    /\ i = [r \in Runs |-> 0]
    /\ context = [r \in Runs |-> <<>>]
    /\ stagesRun = [r \in Runs |-> <<>>]
    /\ calls = [r \in Runs |-> <<>>]
    /\ outcomes = [r \in Runs |-> <<>>]
    /\ result = [r \in Runs |-> NoResult]
    /\ registry = PIPELINE_STAGES
    /\ tool = [r \in Runs |-> NoTool]

\* no direct buildStagePrompt call
NoPromptArgs == [start |-> 0, prev |-> <<>>]

NoPromptRet == [called |-> FALSE, threw |-> FALSE, v |-> <<>>]

Init ==
    /\ InitRuns
    /\ InitChannel
    /\ classifyArg = <<>>
    /\ classifyRet = "none"
    /\ promptArgs = NoPromptArgs
    /\ promptRet = NoPromptRet

\* one invocation against a service that answers anything
Next ==
    \/ \E n \in 1..Len(Problems), b \in Budgets :
          CallRunPipeline("r1", Problems[n], b) /\ UNCHANGED tool
    \/ ServiceSettles("r1")

Spec == Init /\ [][Next]_vars

-----------------------------------------------------------------------------
(* Two invocations against a service that answers a request by its content *)

\* the problem texts of the paired invocations
PairProblems == <<Problems[1], Problems[2]>>

\* the largest budget of a paired runPipeline call
MaxPairBudget == 3

PairBudgets == {0 - 1} \cup (0..MaxPairBudget)

\* the budget of the runPipeline call that the call of run r is compared with:
\* 1 for quickDiagnose, 7 for deepDiagnose, the same budget for runPipeline
TwinBudget(r) ==
    CASE entry[r] = "quickDiagnose" -> 1
      [] entry[r] = "deepDiagnose" -> 7
      [] OTHER -> maxStages[r]

\* the service has answered no equal (model, prompt) request otherwise than o
SameAnswer(r, o) ==
    \A q \in Runs : \A k \in 1..Len(outcomes[q]) :
        calls[q][k] = calls[r][Len(calls[r])] => outcomes[q][k] = o

FixedServiceSettles(r) ==
    \E n \in 1..Len(OutcomesAt(Len(outcomes[r]))) :
        /\ pc[r] = "awaiting"
        /\ SameAnswer(r, OutcomesAt(Len(outcomes[r]))[n])
        /\ Settle(r, OutcomesAt(Len(outcomes[r]))[n])

CallTwin ==
    /\ pc["r1"] # "idle"
    /\ CallRunPipeline("r2", problem["r1"], TwinBudget("r1"))
    /\ UNCHANGED tool

NextPair ==
    \/ \E n \in 1..Len(PairProblems), b \in PairBudgets :
          CallRunPipeline("r1", PairProblems[n], b) /\ UNCHANGED tool
    \/ \E n \in 1..Len(PairProblems) :
          CallQuickDiagnose("r1", PairProblems[n]) /\ UNCHANGED tool
    \/ CallDeepDiagnose("r1", PairProblems[1]) /\ UNCHANGED tool
    \/ CallTwin
    \/ FixedServiceSettles("r1")
    \/ FixedServiceSettles("r2")

SpecPair == Init /\ [][NextPair]_vars

-----------------------------------------------------------------------------
(* classifyError called on its own *)

\* pieces of problem texts, each with the category whose keyword it holds
Fragments == <<
    [text |-> (* "JSX" *) <<"J","S","X">>, cat |-> "syntax"],
    [text |-> (* "Missing >" *) <<"M","i","s","s","i","n","g"," ",">">>, cat |-> "syntax"],
    [text |-> (* "TS(2304)" *) <<"T","S","(","2","3","0","4",")">>, cat |-> "type"],
    [text |-> (* "Is Not Assignable" *) <<"I","s"," ","N","o","t"," ","A","s","s","i","g","n","a",
        "b","l","e">>, cat |-> "type"],
    [text |-> (* "pnpm add" *) <<"p","n","p","m"," ","a","d","d">>, cat |-> "dependency"],
    [text |-> (* "Peer Dep" *) <<"P","e","e","r"," ","D","e","p">>, cat |-> "dependency"],
    [text |-> (* "TSC" *) <<"T","S","C">>, cat |-> "build"],
    [text |-> (* "webpack" *) <<"w","e","b","p","a","c","k">>, cat |-> "build"],
    [text |-> (* "Circular" *) <<"C","i","r","c","u","l","a","r">>, cat |-> "complex"],
    [text |-> (* "hello ts" *) <<"h","e","l","l","o"," ","t","s">>, cat |-> "none"] >>

FragLists == UNION {[1..n -> 1..Len(Fragments)] : n \in 0..MaxFrags}

\* the text made of the fragments, a blank between two of them
TextOf(frags) == join([n \in 1..Len(frags) |-> Fragments[frags[n]].text], <<" ">>)

InitClassify ==
    /\ InitRuns
    /\ InitChannel
    /\ classifyArg \in FragLists
    /\ classifyRet = "none"
    /\ promptArgs = NoPromptArgs
    /\ promptRet = NoPromptRet

CallClassifyError ==
    /\ classifyRet = "none"
    /\ classifyRet' = classifyError(TextOf(classifyArg))
    /\ UNCHANGED <<runVars, registry, classifyArg, channelVars, tool, promptArgs, promptRet>>

NextClassify == CallClassifyError

SpecClassify == InitClassify /\ [][NextClassify]_vars

-----------------------------------------------------------------------------
(* buildStagePrompt called on its own *)

\* the length of a response text that the cut shortens
LongLen == 520

\* a text of LongLen characters, the digits over and over
LongText == [k \in 1..LongLen |-> Digits[(k % 10) + 1]]

\* how the stages before the prompted one have settled
PromptOutcomes == <<
    Resolved(Obj(<<Prop((* "response" *) <<"r","e","s","p","o","n","s","e">>,
        Str((* "Add the missing >" *) <<"A","d","d"," ","t","h","e"," ","m","i","s","s","i","n","g",
        " ",">">>))>>)),
    Resolved(Obj(<<Prop((* "response" *) <<"r","e","s","p","o","n","s","e">>, Str(LongText))>>)),
    Rejected(ErrorObj((* "fetch failed" *) <<"f","e","t","c","h"," ","f","a","i","l","e","d">>)),
    Resolved(Str((* "say "hi"" *) <<"s","a","y"," ","\"","h","i","\"">>)),
    Resolved(Obj(<<Prop((* "response" *) <<"r","e","s","p","o","n","s","e">>, Obj(<<>>)),
        Prop((* "done" *) <<"d","o","n","e">>, Str((* "yes" *) <<"y","e","s">>))>>)),
    Resolved(Str(LongText)),
    Resolved(Undefined) >>

\* how many stages have run before the prompted one, at most
MaxPrev == 2

\* the start indices that getStartStage gives
PromptStarts == 0..4

\* the stage that ran k-th (k from 1) of a run started at index start
stageAt(start, k) == registry[stageIdxOf(start, k - 1)]

\* the response recorded for the k-th stage, as Settle records it
responseAt(args, k) ==
    IF PromptOutcomes[args.prev[k]].ok THEN PromptOutcomes[args.prev[k]].v
    ELSE errorMarker(stageAt(args.start, k), PromptOutcomes[args.prev[k]].v)

\* stagesRun as the loop has filled it when it builds the prompt
previousResultsOf(args) ==
    [k \in 1..Len(args.prev) |->
        [stage |-> stageAt(args.start, k).name, model |-> stageAt(args.start, k).model,
         role |-> stageAt(args.start, k).role, chemistry |-> stageAt(args.start, k).chemistry,
         response |-> responseAt(args, k)]]

\* context as the loop has extended it when it builds the prompt
contextOf(args) ==
    Problems[6] \o Concat([k \in 1..Len(args.prev) |->
                               contextBlock(stageAt(args.start, k), responseAt(args, k))])

InitPrompt ==
    /\ InitRuns
    /\ InitChannel
    /\ classifyArg = <<>>
    /\ classifyRet = "none"
    /\ promptArgs \in [start : PromptStarts,
                        prev : UNION {[1..n -> 1..Len(PromptOutcomes)] : n \in 0..MaxPrev}]
    /\ promptRet = NoPromptRet

CallBuildStagePrompt ==
    LET built == buildStagePrompt(stageAt(promptArgs.start, Len(promptArgs.prev) + 1),
                                  contextOf(promptArgs), previousResultsOf(promptArgs))
    IN  /\ ~promptRet.called
        /\ promptRet' = [called |-> TRUE, threw |-> built.threw, v |-> built.v]
        /\ UNCHANGED <<runVars, registry, classifyArg, channelVars, classifyRet, tool, promptArgs>>

NextPrompt == CallBuildStagePrompt

SpecPrompt == InitPrompt /\ [][NextPrompt]_vars

-----------------------------------------------------------------------------
(* The warroom_diagnose tool *)

\* the white space that the texts handed to the tool hold
WhiteSpace == {" ", "\n", "\t"}

RECURSIVE trimStart(_)
trimStart(s) == IF s # <<>> /\ Head(s) \in WhiteSpace THEN trimStart(Tail(s)) ELSE s

RECURSIVE trimEnd(_)
trimEnd(s) ==
    IF s # <<>> /\ s[Len(s)] \in WhiteSpace THEN trimEnd(SubSeq(s, 1, Len(s) - 1)) ELSE s

\* String.prototype.trim
trim(s) == trimEnd(trimStart(s))

\* json(payload): the tool result, whose details are the payload (its content
\* is a rendering of the same payload)
json(payload) == [kind |-> "json", details |-> payload]

\* the budget of the default case of the switch
StandardStages == 3

\* execute with the default case of the switch running the full rotation
DiagnoseToolExecuteDefaultDeep(r, params) ==
    LET problemText == IF params.problem.t = "string" THEN trim(params.problem.v) ELSE <<>>
        depth == IF params.depth.t = "string" THEN params.depth.v ELSE (* "standard" *) <<"s","t",
            "a","n","d","a","r","d">>
    IN  /\ tool[r].pc = "idle"
        /\ problemText # <<>>
        /\ tool' = [tool EXCEPT ![r] = [pc |-> "awaiting", params |-> params, ret |-> NoTool.ret]]
        /\ IF depth = (* "quick" *) <<"q","u","i","c","k">> THEN CallQuickDiagnose(r, problemText)
           ELSE CallDeepDiagnose(r, problemText)

\* execute taking params.problem as it is, without trim()
DiagnoseToolExecuteUntrimmed(r, params) ==
    LET problemText == IF params.problem.t = "string" THEN params.problem.v ELSE <<>>
        depth == IF params.depth.t = "string" THEN params.depth.v ELSE (* "standard" *) <<"s","t",
            "a","n","d","a","r","d">>
    IN  /\ tool[r].pc = "idle"
        /\ pc[r] = "idle"
        /\ IF problemText = <<>>
           THEN /\ tool' = [tool EXCEPT ![r] =
                               [pc |-> "returned", params |-> params,
                                ret |-> json(Obj(<<Prop((* "error" *) <<"e","r","r","o","r">>,
                                                       Str((* "problem is required." *) <<"p","r",
                                                           "o","b","l","e","m"," ","i","s"," ","r",
                                                           "e","q","u","i","r","e","d",".">>))>>))]]
                /\ UNCHANGED <<runVars, registry, classifyArg, channelVars, classifyRet, promptArgs,
                               promptRet>>
           ELSE /\ tool' = [tool EXCEPT ![r] =
                               [pc |-> "awaiting", params |-> params, ret |-> NoTool.ret]]
                /\ IF depth = (* "quick" *) <<"q","u","i","c","k">> THEN CallQuickDiagnose(r,
                    problemText)
                   ELSE IF depth = (* "deep" *) <<"d","e","e","p">> THEN CallDeepDiagnose(r,
                       problemText)
                   ELSE CallRunPipeline(r, problemText, StandardStages)

\* execute(_id, params) of warroom_diagnose up to its first await, or to its
\* return when the problem is missing
DiagnoseToolExecute(r, params) ==
    LET problemText == IF params.problem.t = "string" THEN trim(params.problem.v) ELSE <<>>
        depth == IF params.depth.t = "string" THEN params.depth.v ELSE (* "standard" *) <<"s","t",
            "a","n","d","a","r","d">>
    IN  /\ tool[r].pc = "idle"
        /\ pc[r] = "idle"
        /\ IF problemText = <<>>
           THEN /\ tool' = [tool EXCEPT ![r] =
                               [pc |-> "returned", params |-> params,
                                ret |-> json(Obj(<<Prop((* "error" *) <<"e","r","r","o","r">>,
                                                       Str((* "problem is required." *) <<"p","r",
                                                           "o","b","l","e","m"," ","i","s"," ","r",
                                                           "e","q","u","i","r","e","d",".">>))>>))]]
                /\ UNCHANGED <<runVars, registry, classifyArg, channelVars, classifyRet, promptArgs,
                               promptRet>>
           ELSE /\ tool' = [tool EXCEPT ![r] =
                               [pc |-> "awaiting", params |-> params, ret |-> NoTool.ret]]
                /\ IF depth = (* "quick" *) <<"q","u","i","c","k">> THEN CallQuickDiagnose(r,
                    problemText)
                   ELSE IF depth = (* "deep" *) <<"d","e","e","p">> THEN CallDeepDiagnose(r,
                       problemText)
                   ELSE CallRunPipeline(r, problemText, StandardStages)

\* execute resumes when the promise it awaits has settled: it returns
\* json(result), or the rejection passes on to its own caller
DiagnoseToolResumes(r) ==
    /\ tool[r].pc = "awaiting"
    /\ pc[r] \in {"returned", "threw"}
    /\ tool' = [tool EXCEPT ![r] =
                   IF pc[r] = "returned"
                   THEN [@ EXCEPT !.pc = "returned", !.ret = json(result[r])]
                   ELSE [@ EXCEPT !.pc = "threw"]]
    /\ UNCHANGED <<runVars, registry, classifyArg, channelVars, classifyRet, promptArgs, promptRet>>

\* the values of params.problem that the agent passes
ToolProblems == <<
    Str((* "  Unexpected token '>' in JSX\n" *) <<" "," ","U","n","e","x","p","e","c","t","e","d",
        " ","t","o","k","e","n"," ","'",">","'"," ","i","n"," ","J","S","X","\n">>),
    Str((* "It crashes on start" *) <<"I","t"," ","c","r","a","s","h","e","s"," ","o","n"," ","s",
        "t","a","r","t">>),
    Str(<<" ","\n">>),
    Undefined,
    Str(<<>>),
    Obj(<<Prop((* "text" *) <<"t","e","x","t">>, Str((* "It crashes on start" *) <<"I","t"," ","c",
        "r","a","s","h","e","s"," ","o","n"," ","s","t","a","r","t">>))>>) >>

\* the values of params.depth that the agent passes
ToolDepths == <<
    Str((* "quick" *) <<"q","u","i","c","k">>),
    Str((* "standard" *) <<"s","t","a","n","d","a","r","d">>),
    Str((* "deep" *) <<"d","e","e","p">>),
    Str((* "Quick" *) <<"Q","u","i","c","k">>),
    Undefined,
    Null >>

NextTool ==
    \/ \E a \in 1..Len(ToolProblems), d \in 1..Len(ToolDepths) :
          DiagnoseToolExecute("r1", [problem |-> ToolProblems[a], depth |-> ToolDepths[d]])
    \/ ServiceSettles("r1")
    \/ DiagnoseToolResumes("r1")

SpecTool == Init /\ [][NextTool]_vars

-----------------------------------------------------------------------------
(* Invocations that overlap, the service answering anything *)

\* the problem text each of the overlapping invocations is called with
ConcProblems == [r \in Runs |-> IF r = "r1" THEN Problems[1] ELSE Problems[2]]

\* the largest budget of an overlapping runPipeline call
MaxConcBudget == 2

ConcBudgets == 1..MaxConcBudget

\* what the service may answer to the request numbered n (from 0) of an
\* overlapping run: a response text, a failure, or for the first request undefined
ConcOutcomesAt(n) == IF n = 0 THEN PlainOutcomes \o <<OddOutcomes[1]>> ELSE PlainOutcomes

ConcServiceSettles(r) ==
    \E n \in 1..Len(ConcOutcomesAt(Len(outcomes[r]))) :
        Settle(r, ConcOutcomesAt(Len(outcomes[r]))[n])

\* a full rotation overlaps with single-stage invocations only
NextConcurrent ==
    \/ \E r \in Runs, b \in ConcBudgets :
          /\ entry["r2"] # "deepDiagnose"
          /\ CallRunPipeline(r, ConcProblems[r], b)
          /\ UNCHANGED tool
    \/ CallQuickDiagnose("r1", ConcProblems["r1"]) /\ UNCHANGED tool
    \/ /\ entry["r1"] \in {"none", "quickDiagnose"}
       /\ CallDeepDiagnose("r2", ConcProblems["r2"])
       /\ UNCHANGED tool
    \/ \E r \in Runs : ConcServiceSettles(r)
    \/ CallClassifyError

SpecConcurrent == Init /\ [][NextConcurrent]_vars

-----------------------------------------------------------------------------
(* The channel: the server, the gateway and the callers of sendText *)

\* the id of the last message the server takes
MaxLastId == 4

\* how many getChats requests the client of one startAccount call makes
MaxGetChats == 3

\* how many poll callbacks of one startAccount call are suspended at a time
MaxPolls == 2

\* how many sendText calls are made
MaxSends == 1

\* the orders in which a response lists the chats
ChatOrders == <<(<<"a", "b", "c">>), (<<"c", "b", "a">>)>>

\* the chats with their last messages as the server holds them, in an order
ChatList(order) ==
    [k \in 1..Len(order) |-> [id |-> order[k], lastMessage |-> chats[order[k]]]]

\* what getChats settles with: the chats of the server, or a failure
GetChatsOutcomes ==
    [k \in 1..Len(ChatOrders) |-> Resolved(ChatList(ChatOrders[k]))]
        \o <<Rejected(ErrorObj((* "fetch failed" *) <<"f","e","t","c","h"," ","f","a","i","l","e",
            "d">>))>>

\* the getChats of the seed, or of a poll callback, settles
seedResponds(n) == \E k \in 1..Len(GetChatsOutcomes) : seedSettles(n, GetChatsOutcomes[k])

pollResponds(n) == \E k \in 1..Len(GetChatsOutcomes) : pollSettles(n, GetChatsOutcomes[k])

\* a message arrives in chat c
newMessage(c) ==
    /\ lastId < MaxLastId
    /\ lastId' = lastId + 1
    /\ chats' = [chats EXCEPT ![c] = lastId + 1]
    /\ UNCHANGED <<activeClients, account, gateway, seenIds, interval, polls, getChatsCalls,
                   newDMs, atStart, sendTexts, sendMessages, pipelineVars>>

\* the interval fires, as long as the bounds of the model allow
timerFires(n) ==
    /\ getChatsCalls[n] < MaxGetChats
    /\ polls[n] < MaxPolls
    /\ pollTick(n)

\* the last messages the chats hold before the channel is started
Histories == {
    [c \in Chats |-> 0],
    [c \in Chats |-> IF c = "a" THEN 1 ELSE 0],
    [c \in Chats |-> CASE c = "a" -> 1 [] c = "b" -> 2 [] c = "c" -> 3] }

\* the pipeline at rest
InitPipeline ==
    /\ InitRuns
    /\ classifyArg = <<>>
    /\ classifyRet = "none"
    /\ promptArgs = NoPromptArgs
    /\ promptRet = NoPromptRet

InitServer(history) ==
    /\ activeClients = [a \in AccountIds |-> NoClient]
    /\ account = [n \in Instances |-> NoAccount]
    /\ gateway = [n \in Instances |-> "idle"]
    /\ seenIds = [n \in Instances |-> <<>>]
    /\ interval = [n \in Instances |-> FALSE]
    /\ polls = [n \in Instances |-> 0]
    /\ getChatsCalls = [n \in Instances |-> 0]
    /\ newDMs = [n \in Instances |-> <<>>]
    /\ atStart = [n \in Instances |-> {}]
    /\ chats = history
    /\ lastId = Cardinality({c \in Chats : history[c] # 0})
    /\ sendTexts = <<>>
    /\ sendMessages = <<>>

InitChannelServer == InitPipeline /\ \E history \in Histories : InitServer(history)

\* one startAccount call of the default account, messages arriving
NextChannel ==
    \/ \E configured \in BOOLEAN : startAccount(1, DEFAULT_ACCOUNT_ID, configured)
    \/ seedResponds(1)
    \/ timerFires(1)
    \/ pollResponds(1)
    \/ stop(1)
    \/ \E c \in Chats : newMessage(c)

SpecChannel == InitChannelServer /\ [][NextChannel]_vars

\* the targets, the texts and the account ids that the callers of sendText pass
SendTargets == {(* "65f0c1" *) <<"6","5","f","0","c","1">>}

SendTexts == {Str(<<"h","i">>), Undefined}

SendAccountIds == {Undefined, Str((* "other" *) <<"o","t","h","e","r">>)}

InitGateway == InitPipeline /\ InitServer([c \in Chats |-> IF c = "a" THEN 1 ELSE 0])

\* startAccount and stop calls of the gateway and sendText calls, in any
\* order; the poll callbacks, which touch neither activeClients nor the
\* messages sent, are followed in SpecChannel
NextGateway ==
    \/ \E n \in Instances, aid \in AccountIds, configured \in BOOLEAN :
          startAccount(n, aid, configured)
    \/ \E n \in Instances : seedResponds(n)
    \/ \E n \in Instances : stop(n)
    \/ \E to \in SendTargets, text \in SendTexts, accountId \in SendAccountIds :
          Len(sendTexts) < MaxSends /\ sendText(to, text, accountId)
    \/ \E k \in 1..Len(sendTexts), ok \in BOOLEAN : sendSettles(k, ok)

SpecGateway == InitGateway /\ [][NextGateway]_vars

-----------------------------------------------------------------------------
(* What the claims are stated with *)

\* the selector's table as the specification gives it
StartTable ==
    [c \in ErrorCategory |->
        CASE c = "syntax" -> 0 [] c = "type" -> 1 [] c = "build" -> 2
          [] c = "dependency" -> 3 [] c = "complex" -> 4 [] c = "unknown" -> 2]

\* the registry entry the specification gives the k-th executed stage (k from 0)
\* of a run of category c
SpecStage(c, k) == PIPELINE_STAGES[((StartTable[c] + k) % 7) + 1]

\* how many stages the specification gives a run of budget b
SpecCount(b) == IF b < 0 THEN 0 ELSE Min(b, 7)

\* the identifiers of the executed stages, in order
StageNames(results) == [k \in 1..Len(results) |-> results[k].stage]

\* the text of an outcome as the context and the prompts carry it, written out
OutcomeText(o, model) ==
    CASE o = PlainOutcomes[1] -> (* "Add the missing >" *) <<"A","d","d"," ","t","h","e"," ","m",
        "i","s","s","i","n","g"," ",">">>
      [] o = PlainOutcomes[2] ->
            (* "{"error":"Model " *) <<"{","\"","e","r","r","o","r","\"",":","\"","M","o","d","e",
                "l"," ">> \o model \o (* " unavailable: Error: fetch failed"}" *) <<" ","u","n","a",
                "v","a","i","l","a","b","l","e",":"," ","E","r","r","o","r",":"," ","f","e","t","c",
                "h"," ","f","a","i","l","e","d","\"","}">>
      [] o = OddOutcomes[1] -> (* "undefined" *) <<"u","n","d","e","f","i","n","e","d">>
      [] o = OddOutcomes[2] -> (* "null" *) <<"n","u","l","l">>
      [] o = OddOutcomes[3] -> (* ""say \\"hi\\""" *) <<"\"","s","a","y"," ","\\","\"","h","i","\\",
          "\"","\"">>
      [] o = OddOutcomes[4] -> (* "{"done":"yes"}" *) <<"{","\"","d","o","n","e","\"",":","\"","y",
          "e","s","\"","}">>

\* the context the specification gives the stage after the first k results of run r
SpecContext(r, k) ==
    problem[r]
        \o Concat([j \in 1..k |->
                      (* "\n\n--- " *) <<"\n","\n","-","-","-"," ">> \o SpecStage(category[r],
                          j - 1).role \o <<" ","(">>
                          \o SpecStage(category[r], j - 1).model \o (* ") ---\n" *) <<")"," ","-",
                              "-","-","\n">>
                          \o OutcomeText(outcomes[r][j], SpecStage(category[r], j - 1).model)])

\* the prompt of the k-th request of run r (k from 1) carries the text ctx as
\* its PROBLEM section
PromptCarries(r, k, ctx) ==
    LET e == SpecStage(category[r], k - 1)
        head == (* "You are the " *) <<"Y","o","u"," ","a","r","e"," ","t","h","e"," ">> \o e.role
                    \o (* " in the Phil Jackson Triangle Pipeline.\nYour job: " *) <<" ","i","n",
                        " ","t","h","e"," ","P","h","i","l"," ","J","a","c","k","s","o","n"," ","T",
                        "r","i","a","n","g","l","e"," ","P","i","p","e","l","i","n","e",".","\n",
                        "Y","o","u","r"," ","j","o","b",":"," ">>
                    \o e.tasks[1] \o (* "\n\nPROBLEM:\n" *) <<"\n","\n","P","R","O","B","L","E","M",
                        ":","\n">>
        after == (* "\n\nYOUR TASKS:\n" *) <<"\n","\n","Y","O","U","R"," ","T","A","S","K","S",":",
            "\n">>
        prompt == calls[r][k].prompt
    IN  /\ Len(prompt) >= Len(head) + Len(ctx) + Len(after)
        /\ SubSeq(prompt, 1, Len(head)) = head
        /\ SubSeq(prompt, Len(head) + 1, Len(head) + Len(ctx)) = ctx
        /\ SubSeq(prompt, Len(head) + Len(ctx) + 1, Len(head) + Len(ctx) + Len(after)) = after

-----------------------------------------------------------------------------
(* The claims *)

\* C1: a run called with a budget maxStages >= 1 returns a DiagnoseResult whose
\* stagesRun has exactly min(maxStages, 7) entries, whatever the service
\* answered at each stage: 1 for budget 1, 7 for budget 7, 7 for a budget above 7.
C1_StageCount ==
    \A r \in Runs :
        (pc[r] = "returned" /\ maxStages[r] >= 1) =>
            /\ result[r].kind = "value"
            /\ Len(result[r].stagesRun) = Min(maxStages[r], 7)
            /\ Len(calls[r]) = Min(maxStages[r], 7)

\* C1 witness: a run with a budget above the registry size has returned 7 results,
\* some stages having failed and some not
C1_Witness ==
    /\ pc["r1"] = "returned"
    /\ maxStages["r1"] = 8
    /\ Len(result["r1"].stagesRun) = 7
    /\ \E k \in 1..7 : ~outcomes["r1"][k].ok
    /\ \E k \in 1..7 : outcomes["r1"][k].ok

\* C2: the k-th executed stage (k from 0) is the registry entry at index
\* (startIndex(category) + k) mod 7: its model is the one invoked, and the k-th
\* StageResult carries its identifier, model, role and chemistry; category
\* syntax with budget 3 runs indices [0,1,2], category dependency with budget 7
\* runs [3,4,5,6,0,1,2].
C2_StageOrder ==
    \A r \in Runs :
        /\ \A k \in 1..Len(calls[r]) :
              calls[r][k].model = SpecStage(category[r], k - 1).model
        /\ \A k \in 1..Len(stagesRun[r]) :
              /\ stagesRun[r][k].stage = SpecStage(category[r], k - 1).name
              /\ stagesRun[r][k].model = SpecStage(category[r], k - 1).model
              /\ stagesRun[r][k].role = SpecStage(category[r], k - 1).role
              /\ stagesRun[r][k].chemistry = SpecStage(category[r], k - 1).chemistry
        /\ (pc[r] = "returned" /\ category[r] = "syntax" /\ maxStages[r] = 3) =>
              StageNames(result[r].stagesRun)
                  = << (* "syntax_correction" *) <<"s","y","n","t","a","x","_","c","o","r","r","e",
                      "c","t","i","o","n">>, (* "logic_validation" *) <<"l","o","g","i","c","_","v",
                      "a","l","i","d","a","t","i","o","n">>, (* "fast_reaction" *) <<"f","a","s",
                      "t","_","r","e","a","c","t","i","o","n">> >>
        /\ (pc[r] = "returned" /\ category[r] = "dependency" /\ maxStages[r] = 7) =>
              StageNames(result[r].stagesRun)
                  = << (* "dependency_management" *) <<"d","e","p","e","n","d","e","n","c","y","_",
                      "m","a","n","a","g","e","m","e","n","t">>, (* "strategic_reasoning" *) <<"s",
                      "t","r","a","t","e","g","i","c","_","r","e","a","s","o","n","i","n","g">>,
                      (* "final_review" *) <<"f","i","n","a","l","_","r","e","v","i","e","w">>,
                       (* "fallback" *) <<"f","a","l","l","b","a","c","k">>,
                           (* "syntax_correction" *) <<"s","y","n","t","a","x","_","c","o","r","r",
                           "e","c","t","i","o","n">>, (* "logic_validation" *) <<"l","o","g","i",
                           "c","_","v","a","l","i","d","a","t","i","o","n">>,
                       (* "fast_reaction" *) <<"f","a","s","t","_","r","e","a","c","t","i","o",
                           "n">> >>

\* C2 witness: a dependency run of budget 7 has returned, having wrapped around
\* the end of the registry
C2_Witness ==
    /\ pc["r1"] = "returned"
    /\ category["r1"] = "dependency"
    /\ maxStages["r1"] = 7
    /\ result["r1"].stagesRun[4].stage = (* "fallback" *) <<"f","a","l","l","b","a","c","k">>
    /\ result["r1"].stagesRun[5].stage = (* "syntax_correction" *) <<"s","y","n","t","a","x","_",
        "c","o","r","r","e","c","t","i","o","n">>

\* C3: a failure of the service at an executed stage does not abort the run: the
\* stage's StageResult is recorded with an error marker that names the stage's
\* model and the failure, the next stage within the budget is invoked right
\* away, and a run that returns has a StageResult for every stage of its
\* budget, for any subset of failing stages.
C3_FailureIsolated ==
    \A r \in Runs :
        /\ \A k \in 1..Len(outcomes[r]) :
              ~outcomes[r][k].ok =>
                  /\ Len(stagesRun[r]) >= k
                  /\ stagesRun[r][k].response
                        = Obj(<<Prop((* "error" *) <<"e","r","r","o","r">>,
                                     Str((* "Model " *) <<"M","o","d","e","l",
                                         " ">> \o SpecStage(category[r], k - 1).model
                                             \o (* " unavailable: Error: fetch failed" *) <<" ","u",
                                                 "n","a","v","a","i","l","a","b","l","e",":"," ",
                                                 "E","r","r","o","r",":"," ","f","e","t","c","h",
                                                 " ","f","a","i","l","e","d">>))>>)
                  /\ k < SpecCount(maxStages[r]) => Len(calls[r]) > k
                  /\ pc[r] # "threw" \/ Len(outcomes[r]) > k
        /\ pc[r] = "returned" =>
              /\ Len(result[r].stagesRun) = SpecCount(maxStages[r])
              /\ Len(outcomes[r]) = SpecCount(maxStages[r])

\* C3 witness: every one of the seven stages failed and the run has returned
\* seven StageResults
C3_Witness ==
    /\ pc["r1"] = "returned"
    /\ Len(result["r1"].stagesRun) = 7
    /\ \A k \in 1..7 : ~outcomes["r1"][k].ok

\* C4: a run whose model invocations all complete, with a value of any shape or
\* with a failure, completes by returning a DiagnoseResult and never by raising
\* an error to its caller.
C4_NeverRaises == \A r \in Runs : pc[r] # "threw"

\* C5: the context passed into the prompt of the k-th executed stage is the
\* problem text followed, in execution order, by one block per prior stage:
\* a header with the stage's role and model, then its response text (for a failed
\* stage the serialized error marker); contexts grow by appending only.
C5_ContextAccumulates ==
    \A r \in Runs :
        /\ \A k \in 1..Len(calls[r]) : PromptCarries(r, k, SpecContext(r, k - 1))
        /\ pc[r] # "idle" => context[r] = SpecContext(r, Len(stagesRun[r]))

\* C5 witness: the third stage has been prompted after a failed stage and a
\* stage that answered
C5_Witness ==
    /\ Len(calls["r1"]) = 3
    /\ ~outcomes["r1"][1].ok
    /\ outcomes["r1"][2].ok
    /\ Len(context["r1"]) > Len(problem["r1"])

\* C8: a problem text that matches no keyword, the empty text included, is
\* classified unknown; the run starts at registry index 2, the fast_reaction
\* stage with model mistral:latest, and proceeds as for any other category.
C8_UnknownStartsAtFastReaction ==
    \A r \in Runs :
        (pc[r] # "idle" /\ problem[r] \in {<<>>, (* "It crashes on start" *) <<"I","t"," ","c","r",
            "a","s","h","e","s"," ","o","n"," ","s","t","a","r","t">>}) =>
            /\ category[r] = "unknown"
            /\ startIdx[r] = 2
            /\ maxStages[r] >= 1 =>
                  /\ Len(calls[r]) >= 1
                  /\ calls[r][1].model = (* "mistral:latest" *) <<"m","i","s","t","r","a","l",":",
                      "l","a","t","e","s","t">>
            /\ Len(stagesRun[r]) >= 1 => stagesRun[r][1].stage = (* "fast_reaction" *) <<"f","a",
                "s","t","_","r","e","a","c","t","i","o","n">>
            /\ \A k \in 1..Len(stagesRun[r]) :
                  stagesRun[r][k].stage = PIPELINE_STAGES[((2 + k - 1) % 7) + 1].name
            /\ pc[r] = "returned" => Len(result[r].stagesRun) = SpecCount(maxStages[r])

\* C8 witness: a run on the empty text has returned after a full rotation
C8_Witness ==
    /\ pc["r1"] = "returned"
    /\ problem["r1"] = <<>>
    /\ Len(result["r1"].stagesRun) = 7
    /\ result["r1"].category = "unknown"

\* C9: getStartStage gives every category an index inside the registry by the
\* table syntax 0, type 1, build 2, dependency 3, complex 4, unknown 2, so that
\* the first stage of a run is the specialist named for its category.
C9_StartTable ==
    \A r \in Runs :
        pc[r] # "idle" =>
            /\ category[r] \in ErrorCategory
            /\ startIdx[r] \in 0..6
            /\ startIdx[r] = StartTable[category[r]]
            /\ Len(stagesRun[r]) >= 1 =>
                  stagesRun[r][1].role =
                      CASE category[r] = "syntax" -> (* "Syntax Specialist" *) <<"S","y","n","t",
                          "a","x"," ","S","p","e","c","i","a","l","i","s","t">>
                        [] category[r] = "type" -> (* "Deep Analyst" *) <<"D","e","e","p"," ","A",
                            "n","a","l","y","s","t">>
                        [] category[r] = "build" -> (* "First Responder" *) <<"F","i","r","s","t",
                            " ","R","e","s","p","o","n","d","e","r">>
                        [] category[r] = "dependency" -> (* "Dependency Coordinator" *) <<"D","e",
                            "p","e","n","d","e","n","c","y"," ","C","o","o","r","d","i","n","a","t",
                            "o","r">>
                        [] category[r] = "complex" -> (* "Architect" *) <<"A","r","c","h","i","t",
                            "e","c","t">>
                        [] category[r] = "unknown" -> (* "First Responder" *) <<"F","i","r","s","t",
                            " ","R","e","s","p","o","n","d","e","r">>

\* C9 witness: the first stage of a dependency run was the Dependency Coordinator
C9_Witness ==
    /\ problem["r1"] = (* "Module not found: cannot find module 'foo'" *) <<"M","o","d","u","l","e",
        " ","n","o","t"," ","f","o","u","n","d",":"," ","c","a","n","n","o","t"," ","f","i","n","d",
        " ","m","o","d","u","l","e"," ","'","f","o","o","'">>
    /\ category["r1"] = "dependency"
    /\ startIdx["r1"] = 3
    /\ Len(stagesRun["r1"]) >= 1
    /\ stagesRun["r1"][1].role = (* "Dependency Coordinator" *) <<"D","e","p","e","n","d","e","n",
        "c","y"," ","C","o","o","r","d","i","n","a","t","o","r">>

\* the requests and results of two runs agree as far as both have got, and
\* two finished runs ended the same way with the same result
Agree(a, b) ==
    /\ category[a] = category[b]
    /\ \A k \in 1..Min(Len(calls[a]), Len(calls[b])) : calls[a][k] = calls[b][k]
    /\ \A k \in 1..Min(Len(stagesRun[a]), Len(stagesRun[b])) :
          stagesRun[a][k] = stagesRun[b][k]
    /\ (pc[a] \in {"returned", "threw"} /\ pc[b] \in {"returned", "threw"}) =>
          /\ pc[a] = pc[b]
          /\ result[a] = result[b]
          /\ calls[a] = calls[b]

FragCategory(frags) ==
    LET Tagged(c) == \E n \in 1..Len(frags) : Fragments[frags[n]].cat = c
    IN  IF Tagged("syntax") THEN "syntax"
        ELSE IF Tagged("type") THEN "type"
        ELSE IF Tagged("dependency") THEN "dependency"
        ELSE IF Tagged("build") THEN "build"
        ELSE IF Tagged("complex") THEN "complex"
        ELSE "unknown"

\* C7: classifyError returns the first category, in the order syntax, type,
\* dependency, build, complex, of which a keyword occurs in the text without
\* regard to case, however many keywords of later categories occur and wherever
\* they occur; unknown when none occurs.
C7_ClassifyPriority ==
    classifyRet # "none" => classifyRet = FragCategory(classifyArg)

\* C7 witness: a text with a dependency keyword, then a build keyword, then a
\* type keyword was classified type
C7_Witness ==
    /\ classifyRet = "type"
    /\ Len(classifyArg) = 3
    /\ Fragments[classifyArg[1]].cat = "dependency"
    /\ Fragments[classifyArg[2]].cat = "build"
    /\ Fragments[classifyArg[3]].cat = "type"

\* C10: quickDiagnose(problem) behaves as runPipeline(problem, 1) and
\* deepDiagnose(problem) as runPipeline(problem, 7): same requests, same result;
\* quickDiagnose returns exactly one StageResult, the stage at the category's
\* start index; for "Unexpected token '>' in JSX" that is category syntax, role
\* Syntax Specialist, model falcon:7b.
C10_QuickAndDeep ==
    /\ (entry["r1"] \in {"quickDiagnose", "deepDiagnose"} /\ pc["r2"] # "idle") =>
          /\ entry["r2"] = "runPipeline"
          /\ problem["r2"] = problem["r1"]
          /\ maxStages["r2"] = (IF entry["r1"] = "quickDiagnose" THEN 1 ELSE 7)
          /\ Agree("r1", "r2")
    /\ (entry["r1"] = "quickDiagnose" /\ pc["r1"] = "returned") =>
          /\ Len(result["r1"].stagesRun) = 1
          /\ result["r1"].stagesRun[1].stage = SpecStage(result["r1"].category, 0).name
          /\ result["r1"].problem = (* "Unexpected token '>' in JSX" *) <<"U","n","e","x","p","e",
              "c","t","e","d"," ","t","o","k","e","n"," ","'",">","'"," ","i","n"," ","J","S",
              "X">> =>
                /\ result["r1"].category = "syntax"
                /\ result["r1"].stagesRun[1].role = (* "Syntax Specialist" *) <<"S","y","n","t","a",
                    "x"," ","S","p","e","c","i","a","l","i","s","t">>
                /\ result["r1"].stagesRun[1].model = (* "falcon:7b" *) <<"f","a","l","c","o","n",
                    ":","7","b">>

\* C10 witness: quickDiagnose and runPipeline with budget 1 have both returned
\* for the JSX problem
C10_Witness ==
    /\ entry["r1"] = "quickDiagnose"
    /\ pc["r1"] = "returned"
    /\ pc["r2"] = "returned"
    /\ maxStages["r2"] = 1
    /\ result["r1"].problem = (* "Unexpected token '>' in JSX" *) <<"U","n","e","x","p","e","c","t",
        "e","d"," ","t","o","k","e","n"," ","'",">","'"," ","i","n"," ","J","S","X">>
    /\ result["r1"] = result["r2"]

\* C11: within one run the stages execute strictly one after the other: at most
\* one model invocation of the run is outstanding at any moment, and the prompt
\* of stage k+1 is built and its invocation started only after the response or
\* failure of stage k has been recorded as a StageResult and folded into the
\* context.
C11_Sequential ==
    \A r \in Runs :
        /\ Len(calls[r]) - Len(outcomes[r]) \in {0, 1}
        /\ Len(calls[r]) - Len(outcomes[r]) = 1 <=> pc[r] = "awaiting"
        /\ Len(stagesRun[r]) = Len(outcomes[r])
        /\ \A k \in 1..Len(calls[r]) : Len(stagesRun[r]) >= k - 1
        /\ Len(stagesRun[r]) >= 1 =>
              LET n == Len(stagesRun[r])
                  folded == OutcomeText(outcomes[r][n], stagesRun[r][n].model)
              IN  /\ Len(context[r]) > Len(folded)
                  /\ SubSeq(context[r], Len(context[r]) - Len(folded) + 1, Len(context[r]))
                        = folded
        /\ pc[r] = "awaiting" =>
              /\ Len(stagesRun[r]) = Len(calls[r]) - 1
              /\ PromptCarries(r, Len(calls[r]), context[r])

\* C11 witness: the seventh invocation of a run is outstanding, the six before
\* it recorded, one of them a failure
C11_Witness ==
    /\ pc["r1"] = "awaiting"
    /\ Len(calls["r1"]) = 7
    /\ Len(outcomes["r1"]) = 6
    /\ Len(stagesRun["r1"]) = 6
    /\ ~outcomes["r1"][6].ok

\* one step of the runs as C12 allows it
C12_Step ==
    \A r \in Runs :
        /\ Len(stagesRun'[r]) - Len(stagesRun[r]) \in {0, 1}
        /\ i'[r] = i[r] + (Len(stagesRun'[r]) - Len(stagesRun[r]))
        /\ Len(calls'[r]) - Len(calls[r]) \in {0, 1}
        /\ Len(calls'[r]) <= i'[r] + 1
        /\ \A k \in 1..Len(calls'[r]) :
              calls'[r][k].model = SpecStage(category'[r], k - 1).model
        /\ pc'[r] = "returned" =>
              /\ Len(calls'[r]) = Len(result'[r].stagesRun)
              /\ Len(result'[r].stagesRun) = SpecCount(maxStages'[r])

\* C12: a run has no retries, backtracking or early exit: the service is called
\* exactly once per executed stage, so a completed run made as many calls as
\* the StageResults it returns, also when stages report an error marker; the
\* stage counter only moves forward, by one per recorded result.
C12_OncePerStage == [][C12_Step]_vars

\* C12 witness: a run of budget 3 has returned three results from three calls,
\* every stage having failed
C12_Witness ==
    /\ pc["r1"] = "returned"
    /\ maxStages["r1"] = 3
    /\ Len(calls["r1"]) = 3
    /\ Len(result["r1"].stagesRun) = 3
    /\ \A k \in 1..3 : ~outcomes["r1"][k].ok

\* the stage that a run alone executes k-th (k from 1) when the start index of
\* its problem text is start
SoloStage(start, k) == PIPELINE_STAGES[((start + k - 1) % 7) + 1]

\* the response that such a run records for the outcome o of that stage
SoloResponse(start, k, o) == IF o.ok THEN o.v ELSE errorMarker(SoloStage(start, k), o.v)

\* the result list of such a run after the outcomes outs
SoloResults(start, outs) ==
    [k \in 1..Len(outs) |->
        [stage |-> SoloStage(start, k).name, model |-> SoloStage(start, k).model,
         role |-> SoloStage(start, k).role, chemistry |-> SoloStage(start, k).chemistry,
         response |-> SoloResponse(start, k, outs[k])]]

\* the header of the context block of a registry stage
BlockHeader(s) == (* "\n\n--- " *) <<"\n","\n","-","-","-"," ">> \o s.role \o <<" ",
    "(">> \o s.model \o (* ") ---\n" *) <<")"," ","-","-","-","\n">>

\* the registry stages that such a run has not executed when it has made n
\* requests
NotRunBy(start, n) == {m \in 1..7 : \A k \in 1..n : SoloStage(start, k) # PIPELINE_STAGES[m]}

\* one step of the runs as C13 allows it: a run is left alone by the step, or
\* it is called, or one more outcome of its own has been recorded; what it
\* then holds follows from its own problem text, context, results and outcomes
C13_Step ==
    \A r \in Runs :
        LET p == problem'[r]
            start == startIdx'[r]
            outs == outcomes'[r]
            n == Len(outs)
            added == SubSeq(context'[r], Len(context[r]) + 1, Len(context'[r]))
            request == [model |-> SoloStage(start, n + 1).model,
                        prompt |-> buildStagePrompt(SoloStage(start, n + 1), context'[r],
                                                    stagesRun'[r]).v]
        IN  \/ /\ context'[r] = context[r]
               /\ stagesRun'[r] = stagesRun[r]
               /\ calls'[r] = calls[r]
               /\ result'[r] = result[r]
               /\ outcomes'[r] = outcomes[r]
               /\ pc'[r] = pc[r]
            \/ /\ pc[r] = "idle"
               /\ outs = <<>>
               /\ start = getStartStage(classifyError(p))
               /\ stagesRun'[r] = <<>>
               /\ context'[r] = p
               /\ calls'[r] = <<>> \/ calls'[r] = <<request>>
            \/ /\ pc[r] = "awaiting"
               /\ n = Len(outcomes[r]) + 1
               /\ SubSeq(outs, 1, n - 1) = outcomes[r]
               /\ start = startIdx[r]
               /\ p = problem[r]
               /\ stagesRun'[r] = SoloResults(start, outs)
               /\ context'[r]
                     = context[r] \o contextBlock(SoloStage(start, n),
                                                  SoloResponse(start, n, outs[n]))
               /\ calls'[r] = calls[r] \/ calls'[r] = Append(calls[r], request)
               /\ pc'[r] = "returned" => result'[r].stagesRun = stagesRun'[r]
               /\ \A m \in NotRunBy(start, Len(calls'[r])) :
                     /\ ~includes(added, BlockHeader(PIPELINE_STAGES[m]))
                     /\ \A k \in 1..Len(stagesRun'[r]) :
                           stagesRun'[r][k].stage # PIPELINE_STAGES[m].name

\* C13: invocations that overlap are isolated: however they interleave at their
\* suspension points, a step of one leaves the state of the others alone, the
\* context, the requests and the result list of each are those of the same
\* invocation alone against the same outcomes, and no context block or result
\* of a stage that only another invocation ran is added to its context or its
\* results.
C13_Isolated == [][C13_Step]_vars

\* C13 witness: two invocations on different problems are suspended at the same
\* time, each at its second request, the first stage of one having failed and
\* the first stage of the other having answered
C13_Witness ==
    /\ pc["r1"] = "awaiting"
    /\ pc["r2"] = "awaiting"
    /\ problem["r1"] # problem["r2"]
    /\ Len(stagesRun["r1"]) = 1
    /\ Len(stagesRun["r2"]) = 1
    /\ ~outcomes["r1"][1].ok
    /\ outcomes["r2"][1].ok

\* C14: the stage registry is read-only for the engine: in every state reached
\* through classifyError, runPipeline, quickDiagnose and deepDiagnose calls,
\* overlapping and failing ones included, it holds exactly 7 descriptors, in
\* the same order, with unchanged contents.
C14_RegistryFixed ==
    /\ Len(registry) = 7
    /\ registry = PIPELINE_STAGES
    /\ [n \in 1..Len(registry) |-> registry[n].name]
          = << (* "syntax_correction" *) <<"s","y","n","t","a","x","_","c","o","r","r","e","c","t",
              "i","o","n">>, (* "logic_validation" *) <<"l","o","g","i","c","_","v","a","l","i","d",
              "a","t","i","o","n">>, (* "fast_reaction" *) <<"f","a","s","t","_","r","e","a","c",
              "t","i","o","n">>,
               (* "dependency_management" *) <<"d","e","p","e","n","d","e","n","c","y","_","m","a",
                   "n","a","g","e","m","e","n","t">>, (* "strategic_reasoning" *) <<"s","t","r","a",
                   "t","e","g","i","c","_","r","e","a","s","o","n","i","n","g">>,
                   (* "final_review" *) <<"f","i","n","a","l","_","r","e","v","i","e","w">>,
               (* "fallback" *) <<"f","a","l","l","b","a","c","k">> >>

\* C14 witness: a full rotation with a failed stage and a single-stage
\* invocation that overlapped with it have returned, and classifyError has
\* been called on its own
C14_Witness ==
    /\ entry["r2"] = "deepDiagnose"
    /\ pc["r2"] = "returned"
    /\ \E k \in 1..7 : ~outcomes["r2"][k].ok
    /\ entry["r1"] = "quickDiagnose"
    /\ pc["r1"] = "returned"
    /\ classifyRet # "none"

\* the stage budget that C15 gives a depth argument
DepthBudget(depth) ==
    IF depth = Str((* "quick" *) <<"q","u","i","c",
        "k">>) THEN 1 ELSE IF depth = Str((* "deep" *) <<"d","e","e","p">>) THEN 7 ELSE 3

\* C15: the warroom_diagnose tool maps its depth argument to a stage budget:
\* quick runs 1 stage, deep runs 7 stages, and standard, an absent depth and
\* any other depth value run 3 stages; the result it returns is the
\* DiagnoseResult of that run.
C15_DepthBudget ==
    \A r \in Runs :
        (tool[r].pc # "idle" /\ pc[r] # "idle") =>
            /\ maxStages[r] = DepthBudget(tool[r].params.depth)
            /\ pc[r] = "returned" =>
                  Len(result[r].stagesRun) = DepthBudget(tool[r].params.depth)
            /\ tool[r].pc = "returned" =>
                  /\ pc[r] = "returned"
                  /\ result[r].kind = "value"
                  /\ tool[r].ret = [kind |-> "json", details |-> result[r]]

\* C15 witness: the tool has returned the three results of a run for a depth
\* that is none of the three names and for an absent depth
C15_Witness ==
    /\ tool["r1"].pc = "returned"
    /\ pc["r1"] = "returned"
    /\ tool["r1"].params.depth \in {Str((* "Quick" *) <<"Q","u","i","c","k">>), Undefined}
    /\ maxStages["r1"] = 3
    /\ Len(tool["r1"].ret.details.stagesRun) = 3

\* the positions of a result list that hold the stage named name
PositionsOf(results, name) == {k \in 1..Len(results) : results[k].stage = name}

\* C16, as the specification states it: a request with maxStages greater than
\* or equal to the registry size wraps around the registry and revisits stages
\* already run in that same invocation.
C16_RevisitsStages ==
    \A r \in Runs :
        (pc[r] = "returned" /\ maxStages[r] >= 7) =>
            \E j \in 1..Len(result[r].stagesRun) : \E k \in (j + 1)..Len(result[r].stagesRun) :
                result[r].stagesRun[j].stage = result[r].stagesRun[k].stage

\* C16, amended: a request with maxStages greater than or equal to the registry
\* size runs one full rotation: from the start index of its category it goes
\* to the end of the registry, wraps to index 0 when it started above 0, and
\* stops before the start index, so that it returns each of the 7 stages
\* exactly once and revisits none.
C16_OneFullRotation ==
    \A r \in Runs :
        (pc[r] = "returned" /\ maxStages[r] >= 7) =>
            /\ Len(result[r].stagesRun) = 7
            /\ \A n \in 1..7 :
                  Cardinality(PositionsOf(result[r].stagesRun, PIPELINE_STAGES[n].name)) = 1
            /\ \A n \in 1..7 :
                  PositionsOf(result[r].stagesRun, PIPELINE_STAGES[n].name)
                      = {((n - 1 - StartTable[result[r].category] + 7) % 7) + 1}
            /\ StartTable[result[r].category] > 0 =>
                  /\ result[r].stagesRun[7 - StartTable[result[r].category]].stage
                        = (* "fallback" *) <<"f","a","l","l","b","a","c","k">>
                  /\ result[r].stagesRun[8 - StartTable[result[r].category]].stage
                        = (* "syntax_correction" *) <<"s","y","n","t","a","x","_","c","o","r","r",
                            "e","c","t","i","o","n">>

\* C16 witness: a run of category complex with budget 8 has returned, after
\* wrapping from the last stage of the registry to the first
C16_Witness ==
    /\ pc["r1"] = "returned"
    /\ maxStages["r1"] = 8
    /\ result["r1"].category = "complex"
    /\ result["r1"].stagesRun[1].stage = (* "strategic_reasoning" *) <<"s","t","r","a","t","e","g",
        "i","c","_","r","e","a","s","o","n","i","n","g">>
    /\ result["r1"].stagesRun[3].stage = (* "fallback" *) <<"f","a","l","l","b","a","c","k">>
    /\ result["r1"].stagesRun[4].stage = (* "syntax_correction" *) <<"s","y","n","t","a","x","_",
        "c","o","r","r","e","c","t","i","o","n">>
    /\ result["r1"].stagesRun[7].stage = (* "dependency_management" *) <<"d","e","p","e","n","d",
        "e","n","c","y","_","m","a","n","a","g","e","m","e","n","t">>

\* C17: for every start index and every stage budget no registry stage is
\* executed twice within one run: the stage identifiers of stagesRun are
\* pairwise distinct, no model is invoked twice, and a budget above the
\* registry size is capped at one full rotation instead of wrapping again.
C17_NoStageTwice ==
    \A r \in Runs :
        /\ \A j \in 1..Len(stagesRun[r]) : \A k \in 1..Len(stagesRun[r]) :
              j # k => stagesRun[r][j].stage # stagesRun[r][k].stage
        /\ \A j \in 1..Len(calls[r]) : \A k \in 1..Len(calls[r]) :
              j # k => calls[r][j].model # calls[r][k].model
        /\ Len(calls[r]) <= 7
        /\ (pc[r] = "returned" /\ maxStages[r] > 7) =>
              /\ Len(result[r].stagesRun) = 7
              /\ \A j \in 1..7 : \A k \in 1..7 :
                    j # k => result[r].stagesRun[j].stage # result[r].stagesRun[k].stage

\* C17 witness: a run with a budget above the registry size, started at index
\* 1, has returned seven results
C17_Witness ==
    /\ pc["r1"] = "returned"
    /\ maxStages["r1"] > 7
    /\ startIdx["r1"] = 1
    /\ Len(result["r1"].stagesRun) = 7
    /\ Len(calls["r1"]) = 7

\* the response text that C18 gives the outcome numbered n of a stage with the
\* given model, written out
PrevTextOf(n, model) ==
    CASE n = 1 -> (* "Add the missing >" *) <<"A","d","d"," ","t","h","e"," ","m","i","s","s","i",
        "n","g"," ",">">>
      [] n = 2 -> LongText
      [] n = 3 -> (* "{"error":"Model " *) <<"{","\"","e","r","r","o","r","\"",":","\"","M","o","d",
          "e","l"," ">> \o model \o (* " unavailable: Error: fetch failed"}" *) <<" ","u","n","a",
          "v","a","i","l","a","b","l","e",":"," ","E","r","r","o","r",":"," ","f","e","t","c","h",
          " ","f","a","i","l","e","d","\"","}">>
      [] n = 4 -> (* ""say \\"hi\\""" *) <<"\"","s","a","y"," ","\\","\"","h","i","\\","\"","\"">>
      [] n = 5 -> (* "[object Object]" *) <<"[","o","b","j","e","c","t"," ","O","b","j","e","c","t",
          "]">>
      [] n = 6 -> <<"\"">> \o LongText \o <<"\"">>
      [] n = 7 -> <<>>

\* a text cut to at most 500 characters
Cut500(s) == IF Len(s) <= 500 THEN s ELSE SubSeq(s, 1, 500)

\* the entry that C18 gives the k-th prior stage
PrevEntryOf(args, k) ==
    LET e == PIPELINE_STAGES[((args.start + k - 1) % 7) + 1]
    IN  <<"-"," ">> \o e.role \o <<" ","(">> \o e.model \o (* "): " *) <<")",":"," ">>
            \o Cut500(PrevTextOf(args.prev[k], e.model)) \o <<"\n">>

\* the previous-analysis section that C18 gives the prompt
PrevSectionOf(args) ==
    IF Len(args.prev) = 0 THEN <<>>
    ELSE (* "PREVIOUS ANALYSIS FROM THE TEAM:\n" *) <<"P","R","E","V","I","O","U","S"," ","A","N",
        "A","L","Y","S","I","S"," ","F","R","O","M"," ","T","H","E"," ","T","E","A","M",":","\n">>
             \o Concat([k \in 1..Len(args.prev) |-> PrevEntryOf(args, k)])
             \o (* "\nBuild on their analysis. Don't repeat what they already found.\n" *) <<"\n",
                 "B","u","i","l","d"," ","o","n"," ","t","h","e","i","r"," ","a","n","a","l","y",
                 "s","i","s","."," ","D","o","n","'","t"," ","r","e","p","e","a","t"," ","w","h",
                 "a","t"," ","t","h","e","y"," ","a","l","r","e","a","d","y"," ","f","o","u","n",
                 "d",".","\n">>

\* C18: the prompt built for the k-th executed stage holds a previous-analysis
\* section if and only if k > 0, and the section lists exactly the k prior
\* StageResults in execution order, one entry each with role, model and the
\* response text cut to at most 500 characters; the response text is the string
\* form of the `response` field of a structured response that has one, and the
\* serialization of the whole response otherwise (of the whole error marker
\* for a failed stage).
C18_PreviousAnalysis ==
    (promptRet.called /\ ~promptRet.threw) =>
        LET stage == PIPELINE_STAGES[((promptArgs.start + Len(promptArgs.prev)) % 7) + 1]
            head == promptHead(stage, contextOf(promptArgs))
            section == SubSeq(promptRet.v, Len(head) + 1, Len(promptRet.v) - Len(promptTail))
        IN  /\ SubSeq(promptRet.v, 1, Len(head)) = head
            /\ SubSeq(promptRet.v, Len(promptRet.v) - Len(promptTail) + 1, Len(promptRet.v))
                  = promptTail
            /\ section = PrevSectionOf(promptArgs)
            /\ Len(promptArgs.prev) > 0 <=> includes(promptRet.v, (* "PREVIOUS ANALYSIS" *) <<"P",
                "R","E","V","I","O","U","S"," ","A","N","A","L","Y","S","I","S">>)

\* C18 witness: a prompt was built after a stage that answered with more than
\* 500 characters in its response field and a stage that failed
C18_Witness ==
    /\ promptRet.called
    /\ ~promptRet.threw
    /\ promptArgs.prev = <<2, 3>>
    /\ Len(promptRet.v) > 500

\* one step of the runs as C19 allows it
C19_Step ==
    \A r \in Runs :
        /\ Len(stagesRun'[r]) >= Len(stagesRun[r])
        /\ SubSeq(stagesRun'[r], 1, Len(stagesRun[r])) = stagesRun[r]
        /\ \A k \in 1..Len(stagesRun'[r]) :
              /\ stagesRun'[r][k].model = calls'[r][k].model
              /\ outcomes'[r][k].ok => stagesRun'[r][k].response = outcomes'[r][k].v
              /\ ~outcomes'[r][k].ok => HasProp(stagesRun'[r][k].response, (* "error" *) <<"e","r",
                  "r","o","r">>)
        /\ pc'[r] = "returned" => result'[r].stagesRun = stagesRun'[r]
        /\ pc[r] = "returned" => result'[r] = result[r]

\* C19: the result list of a run is append-only: a StageResult once appended is
\* never modified, removed or moved by later stages, so the list after stage
\* k is a prefix of the stagesRun finally returned, and insertion order is
\* execution order.
C19_AppendOnly == [][C19_Step]_vars

\* C19 witness: a run has returned four results, the second and the fourth of
\* failed stages
C19_Witness ==
    /\ pc["r1"] = "returned"
    /\ Len(result["r1"].stagesRun) = 4
    /\ outcomes["r1"][1].ok
    /\ ~outcomes["r1"][2].ok
    /\ outcomes["r1"][3].ok
    /\ ~outcomes["r1"][4].ok

\* one step of the runs as C20 allows it
C20_Step ==
    \A r \in Runs :
        /\ pc[r] # "idle" =>
              /\ problem'[r] = problem[r]
              /\ category'[r] = category[r]
        /\ (pc[r] = "idle" /\ pc'[r] # "idle") =>
              /\ \E n \in 1..Len(Problems) : problem'[r] = Problems[n]
              /\ category'[r] = classifyError(problem'[r])
        /\ (pc[r] # "returned" /\ pc'[r] = "returned") =>
              /\ result'[r].problem = problem'[r]
              /\ result'[r].category = category'[r]
              /\ result'[r].category = classifyError(result'[r].problem)
              /\ Len(result'[r].stagesRun) > 0 => result'[r].problem # context'[r]
        /\ pc[r] = "returned" => result'[r] = result[r]

\* C20: the problem and the category of a run are fixed before the first stage
\* and left unchanged by the stages: the returned DiagnoseResult.problem is the
\* caller's original text, not the accumulated context, and
\* DiagnoseResult.category is classifyError of that text, whatever the stages
\* respond, keywords of another category included.
C20_ProblemAndCategoryFixed == [][C20_Step]_vars

\* C20 witness: a run of category dependency has returned with that category
\* after a stage answered with the syntax keyword "missing >"
C20_Witness ==
    /\ pc["r1"] = "returned"
    /\ result["r1"].problem = (* "Module not found: cannot find module 'foo'" *) <<"M","o","d","u",
        "l","e"," ","n","o","t"," ","f","o","u","n","d",":"," ","c","a","n","n","o","t"," ","f","i",
        "n","d"," ","m","o","d","u","l","e"," ","'","f","o","o","'">>
    /\ result["r1"].category = "dependency"
    /\ Len(result["r1"].stagesRun) = 2
    /\ outcomes["r1"][1] = PlainOutcomes[1]
    /\ includes(toLowerCase(context["r1"]), (* "missing >" *) <<"m","i","s","s","i","n","g"," ",
        ">">>)

-----------------------------------------------------------------------------
(* C21: no timeout *)

\* one invocation whose every request the service eventually settles: the
\* await of runPipeline resumes once the promise of ollamaGenerate settles
MaxLiveBudget == 2

LiveBudgets == {0 - 1} \cup (0..MaxLiveBudget)

NextLive ==
    \/ \E n \in 1..Len(Problems), b \in LiveBudgets :
          CallRunPipeline("r1", Problems[n], b) /\ UNCHANGED tool
    \/ ServiceSettles("r1")

SpecLive == Init /\ [][NextLive]_vars /\ WF_vars(ServiceSettles("r1"))

\* while the request of the k-th executed stage (k from 0) has not settled the
\* run is suspended at that stage: it holds k StageResults, has made k + 1
\* requests and its promise is pending
SuspendedAt(r, k) ==
    /\ pc[r] = "awaiting"
    /\ i[r] = k
    /\ Len(stagesRun[r]) = k
    /\ Len(calls[r]) = k + 1
    /\ result[r] = NoResult

\* a step that settles no request leaves a suspended run as it is
C21_StallStep ==
    (pc["r1"] = "awaiting" /\ outcomes'["r1"] = outcomes["r1"]) => runVars' = runVars

\* C21 (phil-jackson.ts 243-256): the engine enforces no timeout. As long as
\* the model invocation of the k-th executed stage has not completed, the run
\* stays suspended at that stage: it records no StageResult for stage k or a
\* later one, invokes no later stage and does not return; and if every
\* invocation eventually completes, the run eventually returns.
C21_StallsOrReturns ==
    /\ [](\A r \in Runs : pc[r] = "awaiting" => SuspendedAt(r, Len(outcomes[r])))
    /\ [][C21_StallStep]_vars
    /\ ((pc["r1"] = "awaiting") ~> (pc["r1"] = "returned"))

\* the part of C21 about a request that never completes, on its own
C21_Stalls ==
    /\ [](\A r \in Runs : pc[r] = "awaiting" => SuspendedAt(r, Len(outcomes[r])))
    /\ [][C21_StallStep]_vars

\* every suspended run ends once its requests complete, by returning or by
\* the TypeError of buildStagePrompt
C21_Ends == (pc["r1"] = "awaiting") ~> (pc["r1"] \in {"returned", "threw"})

\* C21 divergence reached: every request of the run has completed, the first
\* with the value undefined, and the run has ended without returning
C21_EndedWithoutReturn ==
    /\ pc["r1"] = "threw"
    /\ Len(outcomes["r1"]) = Len(calls["r1"])
    /\ outcomes["r1"][1] = Resolved(Undefined)

-----------------------------------------------------------------------------
(* C22: a budget below 1 *)

\* the category of each problem text of Problems, written out
ProblemCategory(p) ==
    CASE p = Problems[1] -> "syntax"
      [] p = Problems[2] -> "dependency"
      [] p = Problems[3] -> "type"
      [] p = Problems[4] -> "build"
      [] p = Problems[5] -> "complex"
      [] p = Problems[6] -> "unknown"
      [] p = Problems[7] -> "unknown"

\* C22: runPipeline called with a stage budget of 0 or a negative budget
\* executes no stage, calls the model-invocation service zero times and
\* returns a DiagnoseResult with the classified category and an empty
\* stagesRun; it does not fail.
C22_NoStageBelowOne ==
    \A r \in Runs :
        (pc[r] # "idle" /\ maxStages[r] <= 0) =>
            /\ pc[r] = "returned"
            /\ calls[r] = <<>>
            /\ outcomes[r] = <<>>
            /\ result[r] = [kind |-> "value", problem |-> problem[r],
                            category |-> ProblemCategory(problem[r]), stagesRun |-> <<>>]

\* C22 witness: a run of budget -1 on the syntax problem has returned the
\* category syntax and no StageResult
C22_Witness ==
    /\ pc["r1"] = "returned"
    /\ maxStages["r1"] = 0 - 1
    /\ calls["r1"] = <<>>
    /\ result["r1"].category = "syntax"
    /\ result["r1"].stagesRun = <<>>

-----------------------------------------------------------------------------
(* C23: the problem argument of warroom_diagnose *)

\* a params.problem that is missing, not a string, empty or white space only
BlankProblem(p) == p.t # "string" \/ \A k \in 1..Len(p.v) : p.v[k] \in WhiteSpace

\* text is the string s without the white space at its two ends
TrimmedOf(text, s) ==
    \E a \in 1..Len(s) : \E b \in a..Len(s) :
        /\ text = SubSeq(s, a, b)
        /\ s[a] \notin WhiteSpace
        /\ s[b] \notin WhiteSpace
        /\ \A k \in 1..Len(s) : (k < a \/ k > b) => s[k] \in WhiteSpace

\* C23: the warroom_diagnose tool rejects a missing, non-string, empty or
\* whitespace-only problem with the error value "problem is required.", and
\* then starts no pipeline run and makes no model-invocation call; for any
\* other problem it runs the pipeline on the trimmed text.
C23_ProblemRequired ==
    \A r \in Runs :
        tool[r].pc # "idle" =>
            IF BlankProblem(tool[r].params.problem)
            THEN /\ tool[r].pc = "returned"
                 /\ tool[r].ret.details =
                        Obj(<<Prop((* "error" *) <<"e","r","r","o","r">>,
                            Str((* "problem is required." *) <<"p","r","o","b","l","e","m"," ","i",
                            "s"," ","r","e","q","u","i","r","e","d",".">>))>>)
                 /\ pc[r] = "idle"
                 /\ calls[r] = <<>>
            ELSE /\ pc[r] # "idle"
                 /\ TrimmedOf(problem[r], tool[r].params.problem.v)
                 /\ Len(calls[r]) >= 1
                 /\ tool[r].ret.details # Obj(<<Prop((* "error" *) <<"e","r","r","o","r">>,
                     Str((* "problem is required." *) <<"p","r","o","b","l","e","m"," ","i","s"," ",
                     "r","e","q","u","i","r","e","d",".">>))>>)

\* C23 witness: a problem of white space only has been answered with the
\* error value and no run was started
C23_Witness ==
    /\ tool["r1"].pc = "returned"
    /\ tool["r1"].params.problem = Str(<<" ","\n">>)
    /\ tool["r1"].ret.details = Obj(<<Prop((* "error" *) <<"e","r","r","o","r">>,
        Str((* "problem is required." *) <<"p","r","o","b","l","e","m"," ","i","s"," ","r","e","q",
        "u","i","r","e","d",".">>))>>)
    /\ pc["r1"] = "idle"
    /\ calls["r1"] = <<>>

\* a problem with white space at both ends has been run as its trimmed text
C23_TrimmedRun ==
    /\ tool["r1"].pc = "returned"
    /\ tool["r1"].params.problem = Str((* "  Unexpected token '>' in JSX\n" *) <<" "," ","U","n",
        "e","x","p","e","c","t","e","d"," ","t","o","k","e","n"," ","'",">","'"," ","i","n"," ","J",
        "S","X","\n">>)
    /\ problem["r1"] = (* "Unexpected token '>' in JSX" *) <<"U","n","e","x","p","e","c","t","e",
        "d"," ","t","o","k","e","n"," ","'",">","'"," ","i","n"," ","J","S","X">>
    /\ tool["r1"].ret.details.problem = (* "Unexpected token '>' in JSX" *) <<"U","n","e","x","p",
        "e","c","t","e","d"," ","t","o","k","e","n"," ","'",">","'"," ","i","n"," ","J","S","X">>

\* a problem that is an object, not a string, has been answered with the error value
C23_NonStringRejected ==
    /\ tool["r1"].pc = "returned"
    /\ tool["r1"].params.problem.t = "object"
    /\ tool["r1"].ret.details = Obj(<<Prop((* "error" *) <<"e","r","r","o","r">>,
        Str((* "problem is required." *) <<"p","r","o","b","l","e","m"," ","i","s"," ","r","e","q",
        "u","i","r","e","d",".">>))>>)
    /\ pc["r1"] = "idle"

-----------------------------------------------------------------------------
(* C24 to C26 and C29: the poller of a started account *)

\* C24 (channel.ts 187-188, 204-243): for one started account each message id
\* is reported as a new DM at most once over any sequence of poll ticks, also
\* when poll callbacks overlap and also after the seen-ID set has been trimmed
\* to its cap.
C24_ReportedOnce ==
    \A n \in Instances :
        \A j, k \in 1..Len(newDMs[n]) : newDMs[n][j] = newDMs[n][k] => j = k

\* C24 divergence reached: in an account with two chats and no history, the
\* last message of the quiet chat has been reported twice, the second time
\* after the messages of the other chat had pushed it out of seenIds
C24_ReportedTwice ==
    /\ atStart[1] = {}
    /\ chats["c"] = 0
    /\ \E j, k \in 1..Len(newDMs[1]) : j < k /\ newDMs[1][j] = newDMs[1][k]

\* what holds of C24: as long as seenIds holds every id reported so far, no
\* id has been reported twice, however the poll callbacks overlap
C24_OnceWhileRemembered ==
    \A n \in Instances :
        (\A j \in 1..Len(newDMs[n]) : has(seenIds[n], newDMs[n][j])) =>
            \A j, k \in 1..Len(newDMs[n]) : newDMs[n][j] = newDMs[n][k] => j = k

\* C25 (channel.ts 190-201, 214-220): the seen-ID set of a started account is
\* bounded: after seeding, and at the end of every poll tick, it holds at most
\* MAX_SEEN_IDS ids.
C25_SeenIdsBounded ==
    \A n \in Instances :
        gateway[n] \in {"running", "stopped"} => Len(seenIds[n]) <= MAX_SEEN_IDS

\* C25 divergence reached: the seed has left more than MAX_SEEN_IDS ids in
\* seenIds and a poll tick that found no new message has ended with as many
C25_SeedOverfills ==
    /\ gateway[1] = "running"
    /\ getChatsCalls[1] >= 2
    /\ polls[1] = 0
    /\ newDMs[1] = <<>>
    /\ Len(seenIds[1]) > MAX_SEEN_IDS

\* C26 (channel.ts 190-201, 204-212): history is not replayed: a message that
\* is the last message of some chat at the moment startAccount is called is
\* never reported as a new DM by a later poll tick of that account, also when
\* the initial seeding request fails.
C26_NoReplay ==
    \A n \in Instances :
        \A k \in 1..Len(newDMs[n]) : newDMs[n][k] \notin atStart[n]

\* C26 divergence reached: the seed failed, and the first poll tick has
\* reported the three messages that were there when the account was started
C26_Replayed ==
    /\ gateway[1] = "running"
    /\ atStart[1] = {1, 2, 3}
    /\ getChatsCalls[1] = 2
    /\ Len(newDMs[1]) = 3
    /\ \A k \in 1..3 : newDMs[1][k] \in atStart[1]

\* after the stop no poll tick is started and no new DM is reported, and the
\* stop leaves no client registered for the account
C29_Step ==
    \A n \in Instances :
        /\ gateway[n] = "stopped" =>
              /\ getChatsCalls'[n] = getChatsCalls[n]
              /\ polls'[n] <= polls[n]
              /\ newDMs'[n] = newDMs[n]
        /\ (gateway[n] = "running" /\ gateway'[n] = "stopped") =>
              activeClients'[account[n].accountId] = NoClient

\* C29 (channel.ts 204-243, 249-256): after the stop function returned by
\* startAccount has been called, the account's client is no longer registered
\* for sendText, no further poll tick is started, and no new DM is reported
\* for that account any more, also when a poll callback was still waiting for
\* its getChats response at the moment of the stop.
C29_QuietAfterStop == [][C29_Step]_vars

\* the part of C29 that the stop itself brings about
C29_StopStep ==
    \A n \in Instances :
        /\ gateway[n] = "stopped" =>
              /\ getChatsCalls'[n] = getChatsCalls[n]
              /\ polls'[n] <= polls[n]
              /\ ~interval[n]
        /\ (gateway[n] = "running" /\ gateway'[n] = "stopped") =>
              activeClients'[account[n].accountId] = NoClient

\* what holds of C29: after the stop no client is registered by it and no
\* poll tick is started
C29_TimerCleared == [][C29_StopStep]_vars

-----------------------------------------------------------------------------
(* C27, C28 and C30: activeClients under startAccount, stop and sendText *)

\* the startAccount calls of account aid that have started and not been stopped
Live(aid) ==
    {n \in Instances : account[n].accountId = aid /\ gateway[n] \in {"seeding", "running"}}

\* the account a sendText call names
AccountOfCall(call) ==
    IF call.accountId \in {Undefined, Null} THEN (* "default" *) <<"d","e","f","a","u","l",
        "t">> ELSE call.accountId.v

\* the text a sendText call sends
MessageOfCall(call) == IF call.text \in {Undefined, Null} THEN <<>> ELSE call.text.v

\* a step that is a sendText call throws "not running" and sends nothing
\* when activeClients holds no client for the account, and else makes one
\* sendMessage request with the target and the text through the registered
\* client, which is one of that account; no other step sends; and an account
\* with no startAccount call alive has no client registered
C27_Step ==
    /\ \A aid \in AccountIds : Live(aid) = {} => activeClients[aid] = NoClient
    /\ IF Len(sendTexts') = Len(sendTexts) + 1
       THEN LET c == sendTexts'[Len(sendTexts')]
                aid == AccountOfCall(c.call)
            IN  IF activeClients[aid] = NoClient
                THEN /\ c.state = "not running"
                     /\ sendMessages' = sendMessages
                ELSE /\ c.state = "awaiting"
                     /\ sendMessages' =
                            Append(sendMessages,
                                   [client |-> activeClients[aid], toId |-> c.call.to,
                                    message |-> MessageOfCall(c.call)])
                     /\ account[activeClients[aid]].accountId = aid
       ELSE sendMessages' = sendMessages

\* C27 (channel.ts 151-166): sendText for an account that has no running
\* messaging client (never started, start rejected, or already stopped) fails
\* with a "messaging client not running" error and sends no message to the
\* SoundChain API; when a client is registered it sends exactly one message
\* to the given target through that account's client.
C27_SendText == [][C27_Step]_vars

\* C27 witness: sendText for the default account, stopped after it ran, has
\* failed and nothing was sent
C27_Witness ==
    /\ gateway[1] = "stopped"
    /\ account[1] = [accountId |-> DEFAULT_ACCOUNT_ID, configured |-> TRUE]
    /\ gateway[2] = "idle"
    /\ Len(sendTexts) = 1
    /\ sendTexts[1].call.accountId = Undefined
    /\ sendTexts[1].state = "not running"
    /\ sendMessages = <<>>

\* sendText for the account "other", started second, has sent one message
\* through the client of that account and returned
C27_SentThroughOwnClient ==
    /\ activeClients[DEFAULT_ACCOUNT_ID] = 1
    /\ activeClients[(* "other" *) <<"o","t","h","e","r">>] = 2
    /\ Len(sendTexts) = 1
    /\ sendTexts[1].call.accountId = Str((* "other" *) <<"o","t","h","e","r">>)
    /\ sendTexts[1].state = "returned"
    /\ sendMessages = <<[client |-> 2, toId |-> (* "65f0c1" *) <<"6","5","f","0","c","1">>,
        message |-> <<"h","i">>]>>

\* sendText has failed for an account whose startAccount was rejected
C27_FailedAfterRejectedStart ==
    /\ gateway[1] = "rejected"
    /\ gateway[2] = "idle"
    /\ Len(sendTexts) = 1
    /\ sendTexts[1].call.accountId = Undefined
    /\ sendTexts[1].state = "not running"

\* a startAccount call on an account that is not configured throws and
\* leaves the Map, the Sets, the timers and the requests as they are; a call
\* that threw has no client, no request and no timer
C28_Step ==
    \A n \in Instances :
        /\ (gateway[n] = "idle" /\ gateway'[n] # "idle" /\ ~account'[n].configured) =>
              /\ gateway'[n] = "rejected"
              /\ UNCHANGED <<activeClients, seenIds, interval, polls, getChatsCalls, newDMs,
                             sendTexts, sendMessages>>
        /\ gateway[n] = "rejected" =>
              /\ gateway'[n] = "rejected"
              /\ \A aid \in AccountIds : activeClients[aid] # n
              /\ getChatsCalls[n] = 0
              /\ ~interval[n]
              /\ polls[n] = 0

\* C28 (channel.ts 174-185): startAccount on an account that is not
\* configured (no API token) fails with an error and changes nothing: no
\* messaging client is created or registered in activeClients, no seeding
\* request is made and no polling timer is started.
C28_UnconfiguredStart == [][C28_Step]_vars

\* C28 witness: a second startAccount of the default account, not configured
\* this time, has thrown while the first call's client stays registered
C28_Witness ==
    /\ gateway[1] = "running"
    /\ activeClients[DEFAULT_ACCOUNT_ID] = 1
    /\ gateway[2] = "rejected"
    /\ account[2] = [accountId |-> DEFAULT_ACCOUNT_ID, configured |-> FALSE]
    /\ getChatsCalls[2] = 0
    /\ ~interval[2]

\* C30 (channel.ts 46-47, 183-185, 249-256): for any interleaving of
\* startAccount and stop calls on the same account id, activeClients holds a
\* client for the account exactly when at least one started instance of that
\* account has not been stopped, and that client belongs to a not-yet-stopped
\* instance.
C30_ClientIffLive ==
    \A aid \in AccountIds :
        /\ activeClients[aid] # NoClient <=> Live(aid) # {}
        /\ activeClients[aid] # NoClient => activeClients[aid] \in Live(aid)

\* C30 divergence reached: of two started instances of the default account
\* the first has been stopped, and no client is registered while the second
\* is still seeding
C30_LiveWithoutClient ==
    /\ gateway[1] = "stopped"
    /\ gateway[2] = "seeding"
    /\ account[1].accountId = DEFAULT_ACCOUNT_ID
    /\ account[2].accountId = DEFAULT_ACCOUNT_ID
    /\ activeClients[DEFAULT_ACCOUNT_ID] = NoClient

\* what holds of C30: a registered client belongs to an instance of the
\* account that has started and not been stopped
C30_ClientIsLive ==
    \A aid \in AccountIds :
        activeClients[aid] # NoClient => activeClients[aid] \in Live(aid)


====
